---- MODULE Spec2Model ----
(***************************************************************************)
(* A model of revpimodio2/modio.py (class RevPiModIO): the process image   *)
(* transactions readprocimg / syncoutputs / writeprocimg, the I/O error    *)
(* accounting, exit(), and the two cyclic loops cycleloop and mainloop.    *)
(*                                                                         *)
(* The specifications share the state:                                     *)
(*   SpecIO    the data path of the foreground process image calls;        *)
(*   SpecErr   the foreground calls with I/O failures, exit() and the      *)
(*             handler of SIGINT and SIGTERM;                              *)
(*   SpecTick  one mainloop and its event evaluation, one phase per step;  *)
(*   Spec      the threads of the program in cycleloop, mainloop and       *)
(*             exit(), and the coordinator, one statement per step;        *)
(*   SpecLock  readprocimg, syncoutputs and the baseline copies of a       *)
(*             mainloop under the device locks, one statement per step;    *)
(*   SpecLoop  one thread in cycleloop or mainloop with what the call      *)
(*             returns or raises, a second in exit() and at the cycle      *)
(*             time, and the coordinator; SpecLoopFair is the loops and    *)
(*             exit() with fair scheduling;                                *)
(*   SpecCount the error counters of the program and of the coordinator,   *)
(*             and the property ioerrors;                                  *)
(*   SpecCfg   _configure on the devices of a piCtory configuration.       *)
(***************************************************************************)
EXTENDS Integers, Sequences, FiniteSets, TLC

\* ------------------------------------------------------------------ bounds

\* SpecErr follows the error counter up to this value.
MaxIoErr == 2

\* SpecCfg configures up to this many devices.
MaxDev == 3

\* A delayed registration of the model waits this many cycles.
NCycles == 3

\* ------------------------------------------------------ configuration used

\* The cycle time of the coordinator in ms ("Standardwert 50 ms").
DefaultRefresh == 50

\* self.device: the configured devices in position order.
DeviceList == <<"d1", "d2">>

Devices == {DeviceList[i] : i \in 1..Len(DeviceList)}

\* The values a byte of the process image takes in the model.
Byte == 0..1

\* dev._slc_devoff: the bytes of a device in the process image. d1 has an
\* input byte and an output byte, d2 an output byte only.
slc_devoff(dev) == IF dev = "d1" THEN 1..2 ELSE 3..3

\* dev._slc_inp, dev._slc_out, dev._slc_mem: the regions of a device buffer.
slc_inp(dev) == IF dev = "d1" THEN {1} ELSE {}

slc_out(dev) == IF dev = "d1" THEN {2} ELSE {1}

slc_mem(dev) == {}

\* The indices of a device buffer and of the process image.
DevIndex(dev) == 1..Cardinality(slc_devoff(dev))

ImgIndex == UNION {slc_devoff(d) : d \in Devices}

\* The byte of the process image that holds byte i of the device buffer.
AbsIndex(dev, i) == (CHOOSE k \in slc_devoff(dev) : \A j \in slc_devoff(dev) : k <= j) + i - 1

\* The ways a call names its device: None, a Device object, a name or position.
CallArgs == {<<"None">>} \cup {<<"obj", d>> : d \in Devices} \cup {<<"key", d>> : d \in Devices}

\* The threads of the program, and the thread mainloop(blocking=False) starts.
Program == {"t1", "t2"}
Spawned == {"m1"}
Threads == Program \cup Spawned

NoLocals == [ec |-> "None", freeze |-> FALSE, full |-> FALSE, kind |-> "none",
             bytesbuff |-> <<>>, todo |-> <<>>]

\* ------------------------------------------------------------------- state

VARIABLES
    \* the process image file behind self._myfh
    img,
    \* dev._ba_devdata and dev._ba_datacp
    ba_devdata, ba_datacp,
    \* dev._selfupdate and self._lst_refresh
    selfupdate, lst_refresh,
    \* self._ioerror, self._maxioerrors, self._monitoring
    ioerror, maxioerrors, monitoring,
    \* self._imgwriter._ioerror: the error counter of the coordinator
    imgwriter_ioerror,
    \* self._looprunning, self._exit, self._waitexit
    looprunning, exitEvt, waitexit,
    \* self._imgwriter.is_alive()
    imgAlive,
    \* the last call: its name and device argument, what it returned or
    \* raised, whether it warned, and the device events it performed, in order
    op, callarg, result, warned, log,
    \* observers: the failed calls since the last reset, and since the last
    \* call that returned True
    failsSinceReset, consec,
    \* self._imgwriter.refresh, .newdata and .lck_refresh (its holder)
    refresh, newdata, lck_refresh,
    \* mainloop: its parameter freeze, its locals lst_fire and dict_delay, the
    \* phase of its tick, and the callbacks its last tick called
    freeze, lst_fire, dict_delay, tpc, fired,
    \* history: the delayed entries the last tick dropped without firing
    dropped,
    \* per thread: where it is, and the locals of its call
    pc, lcl,
    \* the coordinator: where it is, and its stop flag
    wpc, wstop,
    \* dev._filelock: its holder
    filelock,
    \* history, per thread: the steps of its current cycle of cycleloop
    cyc,
    \* history: the EventCallback threads the last tick started and whose
    \* function has not returned
    th_events,
    \* history: the threads that were in a loop call when exit() set _exit
    asked,
    \* the devices of the piCtory configuration, and what _configure made of
    \* them
    jconfigrsc, configured

ioVars == <<img, ba_devdata, ba_datacp, selfupdate, lst_refresh, ioerror,
            imgwriter_ioerror, maxioerrors, monitoring, looprunning, exitEvt, waitexit, imgAlive,
            op, callarg, result, warned, log, failsSinceReset, consec>>

tickVars == <<refresh, newdata, lck_refresh, freeze, lst_fire, dict_delay, tpc, fired, dropped,
              th_events>>

thrVars == <<pc, lcl, wpc, wstop, filelock, cyc>>

cfgVars == <<asked, jconfigrsc, configured>>

vars == <<ioVars, tickVars, thrVars, cfgVars>>

\* No thread is in a call.
NoThreads ==
    /\ pc = [t \in Threads |-> IF t \in Spawned THEN "unborn" ELSE "idle"]
    /\ lcl = [t \in Threads |-> NoLocals]
    /\ wpc = "sleep"
    /\ wstop = FALSE
    /\ filelock = [d \in Devices |-> "free"]
    /\ cyc = [t \in Threads |-> <<>>]

\* _configure is not followed: the devices are those of DeviceList.
NotConfigured == [done |-> FALSE]

NoConfig ==
    /\ asked = {}
    /\ th_events = {}
    /\ jconfigrsc = <<>>
    /\ configured = NotConfigured

\* --------------------------------------------------------- pure operations

\* The state a foreground call works on.
Here == [img |-> img, dd |-> ba_devdata, su |-> selfupdate, lst |-> lst_refresh,
         ioerror |-> ioerror, log |-> <<>>, result |-> "None", warned |-> FALSE,
         fails |-> failsSinceReset, consec |-> consec]

\* An IOError of the file: the observers count it.
Failed(st) == [st EXCEPT !.fails = @ + 1, !.consec = @ + 1]

\* The devices a call covers, in order: all of self.device, or the one named.
mylist(device) == IF device[1] = "None" THEN DeviceList ELSE <<device[2]>>

\* Worked without the test of dev._selfupdate.
Worked_all(device, st) == mylist(device)

\* The devices of mylist the loop "if not dev._selfupdate" works on.
Worked(device, st) == SelectSeq(mylist(device), LAMBDA d : ~st.su[d])

Range(seq) == {seq[i] : i \in 1..Len(seq)}

\* The events of one call on the devices it works on.
Events(kind, devs, bad) ==
    [i \in 1..Len(devs) |-> [ev |-> kind, dev |-> devs[i], ok |-> devs[i] \notin bad]]

\* _gotioerror with > for >=.
gotioerror_late(st) ==
    LET n == st.ioerror + 1 IN
    IF maxioerrors # 0 /\ n > maxioerrors
    THEN [st EXCEPT !.ioerror = n, !.result = "RuntimeError_maxio"]
    ELSE [st EXCEPT !.ioerror = n, !.warned = TRUE]

\* _gotioerror that counts the failure twice.
gotioerror_twice(st) ==
    LET n == st.ioerror + 2 IN
    IF maxioerrors # 0 /\ n >= maxioerrors
    THEN [st EXCEPT !.ioerror = n, !.result = "RuntimeError_maxio"]
    ELSE [st EXCEPT !.ioerror = n, !.warned = TRUE]

\* _gotioerror: count, raise at the maximum, warn otherwise.
gotioerror(st) ==
    LET n == st.ioerror + 1 IN
    IF maxioerrors # 0 /\ n >= maxioerrors
    THEN [st EXCEPT !.ioerror = n, !.result = "RuntimeError_maxio"]
    ELSE [st EXCEPT !.ioerror = n, !.warned = TRUE]

\* readprocimg, the assignment of one device: everything when monitoring,
\* the inputs and the memory otherwise.
ReadInto(dev, buf, bytesbuff) ==
    [i \in DevIndex(dev) |->
        IF monitoring \/ i \in slc_inp(dev) \cup slc_mem(dev)
        THEN bytesbuff[AbsIndex(dev, i)] ELSE buf[i]]

\* syncoutputs, the assignment of one device: the outputs.
SyncInto(dev, buf, bytesbuff) ==
    [i \in DevIndex(dev) |->
        IF i \in slc_out(dev) THEN bytesbuff[AbsIndex(dev, i)] ELSE buf[i]]

\* readprocimg whose successful read clears the error counter.
readprocimg_resets(device, ioerr, st) ==
    IF device[1] # "None" /\ st.su[device[2]]
    THEN [st EXCEPT !.result = "RuntimeError_autorefresh"]
    ELSE IF ioerr
    THEN LET e == gotioerror(Failed(st)) IN
         IF e.result = "None" THEN [e EXCEPT !.result = "False"] ELSE e
    ELSE LET devs == Worked(device, st) IN
         [st EXCEPT !.dd = [d \in Devices |->
                              IF d \in Range(devs) THEN ReadInto(d, st.dd[d], st.img)
                              ELSE st.dd[d]],
                    !.log = @ \o Events("read", devs, {}),
                    !.consec = 0,
                    !.ioerror = 0,
                    !.result = "True"]

\* readprocimg(device); ioerr: the read of the file raises IOError.
readprocimg(device, ioerr, st) ==
    IF device[1] # "None" /\ st.su[device[2]]
    THEN [st EXCEPT !.result = "RuntimeError_autorefresh"]
    ELSE IF ioerr
    THEN LET e == gotioerror(Failed(st)) IN
         IF e.result = "None" THEN [e EXCEPT !.result = "False"] ELSE e
    ELSE LET devs == Worked(device, st) IN
         [st EXCEPT !.dd = [d \in Devices |->
                              IF d \in Range(devs) THEN ReadInto(d, st.dd[d], st.img)
                              ELSE st.dd[d]],
                    !.log = @ \o Events("read", devs, {}),
                    !.consec = 0,
                    !.result = "True"]

\* syncoutputs(device); a name or position is resolved by self.__getitem__,
\* which the class does not define.
syncoutputs(device, ioerr, st) ==
    IF device[1] = "key"
    THEN [st EXCEPT !.result = "AttributeError"]
    ELSE IF device[1] = "obj" /\ st.su[device[2]]
    THEN [st EXCEPT !.result = "RuntimeError_autorefresh"]
    ELSE IF ioerr
    THEN LET e == gotioerror(Failed(st)) IN
         IF e.result = "None" THEN [e EXCEPT !.result = "False"] ELSE e
    ELSE LET devs == Worked(device, st) IN
         [st EXCEPT !.dd = [d \in Devices |->
                              IF d \in Range(devs) THEN SyncInto(d, st.dd[d], st.img)
                              ELSE st.dd[d]],
                    !.log = @ \o Events("sync", devs, {}),
                    !.consec = 0,
                    !.result = "True"]

\* WriteOut that writes the whole buffer of a device, not only its outputs.
WriteOut_whole(devs, dd, image) ==
    [k \in ImgIndex |->
        IF \E d \in devs : k \in slc_devoff(d)
        THEN LET d == CHOOSE d \in devs : k \in slc_devoff(d)
                 i == CHOOSE i \in DevIndex(d) : AbsIndex(d, i) = k
             IN dd[d][i]
        ELSE image[k]]

\* The file after the output regions of the devices in devs are written.
WriteOut(devs, dd, image) ==
    [k \in ImgIndex |->
        IF \E d \in devs : \E i \in slc_out(d) : AbsIndex(d, i) = k
        THEN LET d == CHOOSE d \in devs : \E i \in slc_out(d) : AbsIndex(d, i) = k
                 i == CHOOSE i \in slc_out(d) : AbsIndex(d, i) = k
             IN dd[d][i]
        ELSE image[k]]

\* writeprocimg without the test of self._monitoring.
writeprocimg_nomon(device, bad, st) ==
    IF device[1] = "key"
    THEN [st EXCEPT !.result = "AttributeError"]
    ELSE IF device[1] = "obj" /\ st.su[device[2]]
    THEN [st EXCEPT !.result = "RuntimeError_autorefresh"]
    ELSE LET devs == Worked(device, st)
             w == [st EXCEPT !.img = WriteOut(Range(devs) \ bad, st.dd, st.img),
                             !.log = @ \o Events("write", devs, bad)]
         IN IF Range(devs) \cap bad = {}
            THEN [w EXCEPT !.result = "True", !.consec = 0]
            ELSE LET e == gotioerror(Failed(w)) IN
                 IF e.result = "None" THEN [e EXCEPT !.result = "False"] ELSE e

\* writeprocimg(device); bad: the devices whose seek or write raises IOError.
writeprocimg(device, bad, st) ==
    IF monitoring
    THEN [st EXCEPT !.result = "RuntimeError_monitoring"]
    ELSE IF device[1] = "key"
    THEN [st EXCEPT !.result = "AttributeError"]
    ELSE IF device[1] = "obj" /\ st.su[device[2]]
    THEN [st EXCEPT !.result = "RuntimeError_autorefresh"]
    ELSE LET devs == Worked(device, st)
             w == [st EXCEPT !.img = WriteOut(Range(devs) \ bad, st.dd, st.img),
                             !.log = @ \o Events("write", devs, bad)]
         IN IF Range(devs) \cap bad = {}
            THEN [w EXCEPT !.result = "True", !.consec = 0]
            ELSE LET e == gotioerror(Failed(w)) IN
                 IF e.result = "None" THEN [e EXCEPT !.result = "False"] ELSE e

\* exit_refresh with "if" for "while": only the last device is released.
exit_refresh_once(bad, st) ==
    IF st.lst = <<>>
    THEN st
    ELSE LET dev == st.lst[Len(st.lst)]
             s1 == [st EXCEPT !.lst = SubSeq(@, 1, Len(@) - 1),
                              !.su[dev] = FALSE,
                              !.log = Append(@, [ev |-> "selfupdate_off", dev |-> dev, ok |-> TRUE])]
         IN IF monitoring
            THEN s1
            ELSE LET w == writeprocimg(<<"obj", dev>>, bad, s1) IN
                 IF w.result \in {"True", "False"}
                 THEN [w EXCEPT !.result = "None"]
                 ELSE w

\* exit(full=True), the loop over self._lst_refresh: pop the last device,
\* turn its _selfupdate off, and unless monitoring write its outputs. An
\* error raised by writeprocimg leaves the loop and exit.
RECURSIVE exit_refresh(_, _)
exit_refresh(bad, st) ==
    IF st.lst = <<>>
    THEN st
    ELSE LET dev == st.lst[Len(st.lst)]
             s1 == [st EXCEPT !.lst = SubSeq(@, 1, Len(@) - 1),
                              !.su[dev] = FALSE,
                              !.log = Append(@, [ev |-> "selfupdate_off", dev |-> dev, ok |-> TRUE])]
         IN IF monitoring
            THEN exit_refresh(bad, s1)
            ELSE LET w == writeprocimg(<<"obj", dev>>, bad, s1) IN
                 IF w.result \in {"True", "False"}
                 THEN exit_refresh(bad, [w EXCEPT !.result = "None"])
                 ELSE w

\* signal(SIGINT, SIG_DFL); signal(SIGTERM, SIG_DFL)
SigDfl == << [ev |-> "SIG_DFL", dev |-> "SIGINT", ok |-> TRUE],
             [ev |-> "SIG_DFL", dev |-> "SIGTERM", ok |-> TRUE] >>

\* __evt_exit: the dispositions, exit(full=True), and with a cleanup function
\* readprocimg(), the function, which sets the output of d1 to 0, and
\* writeprocimg(). An error raised by a call ends the handler. bad and bad2:
\* the devices whose write fails in exit and at the end; ioerr: the read fails.
evt_exit(cleanupfunc, bad, ioerr, bad2, st) ==
    LET x == exit_refresh(bad, [st EXCEPT !.log = SigDfl]) IN
    IF x.result # "None" \/ ~cleanupfunc
    THEN x
    ELSE LET r == readprocimg(<<"None">>, ioerr, x) IN
         IF r.result \notin {"True", "False"}
         THEN r
         ELSE LET c == [r EXCEPT !.dd["d1"][2] = IF monitoring THEN @ ELSE 0,
                                 !.log = Append(@, [ev |-> "cleanupfunc", dev |-> "None", ok |-> TRUE]),
                                 !.result = "None"]
                  w == writeprocimg(<<"None">>, bad2, c)
              IN  IF w.result \in {"True", "False"}
                  THEN [w EXCEPT !.result = "None"]
                  ELSE w

\* ------------------------------------------------- SpecIO: one call a step

\* What a call leaves behind in the state.
Leaves(name, device, r) ==
    /\ op' = name
    /\ callarg' = device[Len(device)]
    /\ img' = r.img
    /\ ba_devdata' = r.dd
    /\ selfupdate' = r.su
    /\ lst_refresh' = r.lst
    /\ ioerror' = r.ioerror
    /\ result' = r.result
    /\ warned' = r.warned
    /\ log' = r.log
    /\ failsSinceReset' = r.fails
    /\ consec' = r.consec

Readprocimg(cap) ==
    \E device \in CallArgs, ioerr \in BOOLEAN :
        LET r == readprocimg(device, ioerr, Here) IN
        /\ r.ioerror <= cap
        /\ Leaves("readprocimg", device, r)
        /\ UNCHANGED <<ba_datacp, imgwriter_ioerror, maxioerrors, monitoring, looprunning, exitEvt,
                       waitexit, imgAlive>>

Syncoutputs(cap) ==
    \E device \in CallArgs, ioerr \in BOOLEAN :
        LET r == syncoutputs(device, ioerr, Here) IN
        /\ r.ioerror <= cap
        /\ Leaves("syncoutputs", device, r)
        /\ UNCHANGED <<ba_datacp, imgwriter_ioerror, maxioerrors, monitoring, looprunning, exitEvt,
                       waitexit, imgAlive>>

Writeprocimg(cap) ==
    \E device \in CallArgs :
    \E bad \in SUBSET Range(Worked(device, Here)) :
        LET r == writeprocimg(device, bad, Here) IN
        /\ r.ioerror <= cap
        /\ Leaves("writeprocimg", device, r)
        /\ UNCHANGED <<ba_datacp, imgwriter_ioerror, maxioerrors, monitoring, looprunning, exitEvt,
                       waitexit, imgAlive>>

\* exit(full): the flags, then with full the coordinator is stopped and joined
\* and the refreshed devices are released; _looprunning is reset at the end.
Exit(cap) ==
    \E full \in BOOLEAN :
    \E bad \in SUBSET (IF full THEN Range(lst_refresh) ELSE {}) :
        LET r == IF full THEN exit_refresh(bad, Here) ELSE Here IN
        /\ r.ioerror <= cap
        /\ Leaves(IF full THEN "exit_full" ELSE "exit", <<"None">>, r)
        /\ exitEvt' = TRUE
        /\ waitexit' = TRUE
        /\ imgAlive' = IF full THEN FALSE ELSE imgAlive
        /\ looprunning' = IF r.result = "None" THEN FALSE ELSE looprunning
        /\ UNCHANGED <<ba_datacp, imgwriter_ioerror, maxioerrors, monitoring>>

\* SIGINT or SIGTERM arrives after handlesignalend(cleanupfunc): __evt_exit.
EvtExit(cap) ==
    \E cleanupfunc \in BOOLEAN, ioerr \in BOOLEAN :
    \E bad \in SUBSET Range(lst_refresh) :
    \E bad2 \in SUBSET (IF cleanupfunc /\ ~ioerr /\ ~monitoring THEN Devices ELSE {}) :
        LET x == exit_refresh(bad, Here)
            r == evt_exit(cleanupfunc, bad, ioerr, bad2, Here)
        IN
        /\ (~cleanupfunc \/ x.result # "None") => ~ioerr
        /\ x.result # "None" => bad2 = {}
        /\ r.ioerror <= cap
        /\ Leaves("evt_exit", <<IF cleanupfunc THEN "cleanupfunc" ELSE "None">>, r)
        /\ exitEvt' = TRUE
        /\ waitexit' = TRUE
        /\ imgAlive' = FALSE
        /\ looprunning' = IF x.result = "None" THEN FALSE ELSE looprunning
        /\ UNCHANGED <<ba_datacp, imgwriter_ioerror, maxioerrors, monitoring>>

\* resetioerrors()
Resetioerrors ==
    /\ Leaves("resetioerrors", <<"None">>, [Here EXCEPT !.ioerror = 0, !.fails = 0, !.consec = 0])
    /\ imgwriter_ioerror' = 0
    /\ UNCHANGED <<ba_datacp, maxioerrors, monitoring, looprunning, exitEvt,
                   waitexit, imgAlive>>

\* The property maxioerrors is set.
SetMaxioerrors ==
    \E value \in {-1, 0, 1, 2} :
        /\ maxioerrors' = IF value >= 0 THEN value ELSE maxioerrors
        /\ Leaves("maxioerrors", <<"None">>, [Here EXCEPT !.result = IF value >= 0 THEN "None" ELSE "ValueError"])
        /\ UNCHANGED <<ba_datacp, imgwriter_ioerror, monitoring, looprunning, exitEvt,
                       waitexit, imgAlive>>

\* dev.autorefresh(): the device is handed to the coordinator, which is started.
Autorefresh ==
    \E dev \in Devices :
        /\ ~selfupdate[dev]
        /\ Leaves("autorefresh", <<"obj", dev>>, [Here EXCEPT !.su[dev] = TRUE, !.lst = Append(@, dev)])
        /\ imgAlive' = TRUE
        /\ UNCHANGED <<ba_datacp, imgwriter_ioerror, maxioerrors, monitoring, looprunning, exitEvt, waitexit>>

\* io.value = v on an output of a device.
SetOutput ==
    \E dev \in Devices, v \in Byte :
        /\ ~monitoring
        /\ \E i \in slc_out(dev) :
              /\ ba_devdata[dev][i] # v
              /\ Leaves("set_value", <<"obj", dev>>, [Here EXCEPT !.dd[dev][i] = v])
        /\ UNCHANGED <<ba_datacp, imgwriter_ioerror, maxioerrors, monitoring, looprunning, exitEvt,
                       waitexit, imgAlive>>

\* The hardware changes a byte of the process image.
Hardware ==
    \E k \in ImgIndex, v \in Byte :
        /\ img[k] # v
        /\ Leaves("hardware", <<"None">>, [Here EXCEPT !.img[k] = v])
        /\ UNCHANGED <<ba_datacp, imgwriter_ioerror, maxioerrors, monitoring, looprunning, exitEvt,
                       waitexit, imgAlive>>

\* The state RevPiModIO(autorefresh, monitoring, syncoutputs) constructs.
InitIO ==
    \E autorefresh \in BOOLEAN, sync \in BOOLEAN :
        /\ img \in [ImgIndex -> Byte]
        /\ monitoring \in BOOLEAN
        /\ ba_devdata = [d \in Devices |->
                            IF sync THEN SyncInto(d, [i \in DevIndex(d) |-> 0], img)
                            ELSE [i \in DevIndex(d) |-> 0]]
        /\ ba_datacp = [d \in Devices |-> [i \in DevIndex(d) |-> 0]]
        /\ selfupdate = [d \in Devices |-> autorefresh]
        /\ lst_refresh = IF autorefresh THEN DeviceList ELSE <<>>
        /\ imgAlive = autorefresh
        /\ ioerror = 0
        /\ imgwriter_ioerror = 0
        /\ maxioerrors = 0
        /\ looprunning = FALSE
        /\ exitEvt = FALSE
        /\ waitexit = FALSE
        /\ op = "init"
        /\ callarg = "None"
        /\ result = "None"
        /\ warned = FALSE
        /\ log = <<>>
        /\ failsSinceReset = 0
        /\ consec = 0
        /\ refresh = DefaultRefresh
        /\ newdata = FALSE
        /\ lck_refresh = "free"
        /\ freeze = FALSE
        /\ lst_fire = <<>>
        /\ dict_delay = <<>>
        /\ tpc = "idle"
        /\ fired = <<>>
        /\ dropped = <<>>
        /\ NoThreads
        /\ NoConfig

\* The data path: the file never fails and the environment changes the data.
NextIO ==
    /\ \/ Readprocimg(0)
       \/ Syncoutputs(0)
       \/ Writeprocimg(0)
       \/ Autorefresh
       \/ SetOutput
       \/ Hardware
    /\ UNCHANGED tickVars
    /\ UNCHANGED thrVars
    /\ UNCHANGED cfgVars

SpecIO == InitIO /\ [][NextIO]_vars

\* ----------------------- SpecErr: the calls, I/O failures and exit, a call
\* a step; only the calls change the data.

NextErr ==
    /\ \/ Readprocimg(MaxIoErr)
       \/ Syncoutputs(MaxIoErr)
       \/ Writeprocimg(MaxIoErr)
       \/ Exit(MaxIoErr)
       \/ EvtExit(MaxIoErr)
       \/ Resetioerrors
       \/ SetMaxioerrors
       \/ Autorefresh
    /\ UNCHANGED tickVars
    /\ UNCHANGED thrVars
    /\ UNCHANGED cfgVars

\* RevPiModIO(syncoutputs=True) on a file that holds 1 in every byte: the input
\* a call reads shows in the buffers, which start at 0.
InitErr ==
    /\ InitIO
    /\ img = [k \in ImgIndex |-> 1]
    /\ ba_devdata = [d \in Devices |-> SyncInto(d, [i \in DevIndex(d) |-> 0], img)]

SpecErr == InitErr /\ [][NextErr]_vars

\* ------------------------------------ SpecTick: the ticks of one mainloop

\* The registrations (func, edge, as_thread, delay, overwrite) of the program.
f1 == <<"f1", "RISING", FALSE, 0, FALSE>>
f2 == <<"f2", "FALLING", FALSE, 0, FALSE>>
f3 == <<"f3", "BOTH", TRUE, 0, FALSE>>
f4 == <<"f4", "RISING", FALSE, NCycles * DefaultRefresh, FALSE>>
f5 == <<"f5", "RISING", FALSE, DefaultRefresh + 25, TRUE>>
f6 == <<"f6", "RISING", FALSE, 0, FALSE>>
f7 == <<"f7", "FALLING", FALSE, NCycles * DefaultRefresh, FALSE>>

\* dev._dict_events in registration order: I_1 and I_2 are bits 0 and 1 of the
\* input byte of d1, O_1 is its output byte as a whole.
dict_events(dev) ==
    IF dev = "d1"
    THEN << <<"I_1", <<f1, f2, f3>> >>, <<"I_2", <<f4, f5>> >>, <<"O_1", <<f6, f7>> >> >>
    ELSE <<>>

io_dev(io) == "d1"
io_slc_address(io) == IF io = "O_1" THEN 2 ELSE 1
io_bitaddress(io) == IF io = "I_1" THEN 0 ELSE IF io = "I_2" THEN 1 ELSE -1

\* The values a byte of d1 takes under the events.
TickByte(i) == IF i \in slc_inp("d1") THEN 0..3 ELSE Byte

\* bool(int.from_bytes(buf[slc]) & 1 << bit), as 0 or 1 (True == 1 in Python)
BitOf(b, n) == (b \div (2 ^ n)) % 2

\* io.value read from a buffer
value(io, dd) ==
    IF io_bitaddress(io) >= 0
    THEN BitOf(dd[io_dev(io)][io_slc_address(io)], io_bitaddress(io))
    ELSE dd[io_dev(io)][io_slc_address(io)]

\* math.ceil(a / b)
ceil(a, b) == (a + b - 1) \div b

\* The edge test of a registration on a bit that changed to boolor.
Matches_any(regfunc, boolor) == TRUE

Matches(regfunc, boolor) ==
    \/ regfunc[2] = "BOTH"
    \/ regfunc[2] = "RISING" /\ boolor = 1
    \/ regfunc[2] = "FALLING" /\ boolor # 1

\* k in dict_delay; an entry of dict_delay is its key (regfunc, name, value),
\* its countdown and, as history, the ticks since the key was inserted.
HasKey(dd, k) == \E i \in 1..Len(dd) : Len(dd[i].key) = Len(k) /\ dd[i].key = k

\* dict_delay[k] = n
SetKey(dd, k, n) ==
    IF HasKey(dd, k)
    THEN [i \in 1..Len(dd) |-> IF dd[i].key = k THEN [dd[i] EXCEPT !.cnt = n] ELSE dd[i]]
    ELSE Append(dd, [key |-> k, cnt |-> n, age |-> 0])

\* OnReg that tests the edge of a registration for every IO, bit or not.
OnReg_edge(regfunc, io, boolor, acc) ==
    LET tupfire == <<regfunc, io, value(io, ba_devdata)>>
        n == ceil(regfunc[4], refresh)
    IN  IF Matches(regfunc, boolor)
        THEN IF regfunc[4] = 0
             THEN [acc EXCEPT !.fire = Append(@, [tup |-> tupfire, age |-> 0])]
             ELSE IF regfunc[5] \/ ~HasKey(acc.delay, tupfire)
                  THEN [acc EXCEPT !.delay = SetKey(@, tupfire, n)]
                  ELSE acc
        ELSE acc

\* One registration of an IO whose value changed; acc holds lst_fire and
\* dict_delay.
OnReg(regfunc, io, boolor, acc) ==
    LET tupfire == <<regfunc, io, value(io, ba_devdata)>>
        n == ceil(regfunc[4], refresh)
    IN  IF io_bitaddress(io) >= 0
        THEN IF Matches(regfunc, boolor)
             THEN IF regfunc[4] = 0
                  THEN [acc EXCEPT !.fire = Append(@, [tup |-> tupfire, age |-> 0])]
                  ELSE IF regfunc[5] \/ ~HasKey(acc.delay, tupfire)
                       THEN [acc EXCEPT !.delay = SetKey(@, tupfire, n)]
                       ELSE acc
             ELSE acc
        ELSE IF regfunc[4] = 0
             THEN [acc EXCEPT !.fire = Append(@, [tup |-> tupfire, age |-> 0])]
             ELSE IF regfunc[5] \/ ~HasKey(acc.delay, regfunc)
                  THEN [acc EXCEPT !.delay = SetKey(@, tupfire, n)]
                  ELSE acc

RECURSIVE OnRegs(_, _, _, _, _)
OnRegs(regs, i, io, boolor, acc) ==
    IF i > Len(regs) THEN acc
    ELSE OnRegs(regs, i + 1, io, boolor, OnReg(regs[i], io, boolor, acc))

\* One IO with registrations: skipped when its bytes, or its bit, did not
\* change.
OnIO(dev, io_event, acc) ==
    LET io == io_event[1]
        slc == io_slc_address(io)
        boolcp == BitOf(ba_datacp[dev][slc], io_bitaddress(io))
        boolor == BitOf(ba_devdata[dev][slc], io_bitaddress(io))
    IN  IF ba_datacp[dev][slc] = ba_devdata[dev][slc] THEN acc
        ELSE IF io_bitaddress(io) >= 0
             THEN IF boolor = boolcp THEN acc
                  ELSE OnRegs(io_event[2], 1, io, boolor, acc)
             ELSE OnRegs(io_event[2], 1, io, 0, acc)

RECURSIVE OnIOs(_, _, _)
OnIOs(dev, i, acc) ==
    IF i > Len(dict_events(dev)) THEN acc
    ELSE OnIOs(dev, i + 1, OnIO(dev, dict_events(dev)[i], acc))

\* One refreshed device: skipped without registrations or without a change,
\* else its IOs are looked at and its buffer becomes the new baseline.
OnDev(dev, acc) ==
    IF Len(dict_events(dev)) = 0 \/ ba_datacp[dev] = ba_devdata[dev] THEN acc
    ELSE [OnIOs(dev, 1, acc) EXCEPT !.cp[dev] = ba_devdata[dev]]

RECURSIVE OnDevs(_, _)
OnDevs(i, acc) ==
    IF i > Len(lst_refresh) THEN acc
    ELSE OnDevs(i + 1, OnDev(lst_refresh[i], acc))

\* A delayed entry is dropped when its registration has overwrite set and the
\* IO no longer has the value of the entry.
Cancelled_never(e) == FALSE

Cancelled(e) == e.key[1][5] /\ value(e.key[2], ba_devdata) # e.key[3]

\* The entry is counted down to 0 in this tick.
Matured(e) == ~Cancelled(e) /\ e.cnt - 1 <= 0

AgeCap == NCycles + 1

Older(e) == [e EXCEPT !.cnt = @ - 1, !.age = IF @ < AgeCap THEN @ + 1 ELSE @]

Reverse(seq) == [i \in 1..Len(seq) |-> seq[Len(seq) + 1 - i]]

\* The coordinator ends a cycle: under lck_refresh the inputs of the refreshed
\* devices are read, and newdata is set.
WriterRefresh ==
    /\ lck_refresh = "free"
    /\ \E v \in TickByte(1) :
           ba_devdata' = [ba_devdata EXCEPT !["d1"][1] = v]
    /\ newdata' = TRUE
    /\ UNCHANGED <<img, ba_datacp, selfupdate, lst_refresh, ioerror, imgwriter_ioerror,
                   maxioerrors,
                   monitoring, looprunning, exitEvt, waitexit, imgAlive, op,
                   callarg, result, warned, log, failsSinceReset, consec>>
    /\ UNCHANGED <<refresh, lck_refresh, freeze, lst_fire, dict_delay, tpc, fired, dropped,
                   th_events>>

\* The program sets an output, O_1 of d1 or the output of d2, at any time.
SetValue ==
    /\ \E dev \in Devices, v \in Byte :
       \E i \in slc_out(dev) :
           /\ v # ba_devdata[dev][i]
           /\ ba_devdata' = [ba_devdata EXCEPT ![dev][i] = v]
    /\ UNCHANGED <<img, ba_datacp, selfupdate, lst_refresh, ioerror, imgwriter_ioerror,
                   maxioerrors,
                   monitoring, looprunning, exitEvt, waitexit, imgAlive, op,
                   callarg, result, warned, log, failsSinceReset, consec>>
    /\ UNCHANGED tickVars

\* TickDiff that releases lck_refresh after the comparison also with freeze.
TickDiff_release ==
    /\ tpc = "wait"
    /\ newdata
    /\ lck_refresh = "free"
    /\ LET acc == OnDevs(1, [fire |-> lst_fire, delay |-> dict_delay, cp |-> ba_datacp]) IN
           /\ lst_fire' = acc.fire
           /\ dict_delay' = acc.delay
           /\ ba_datacp' = acc.cp
    /\ newdata' = FALSE
    /\ lck_refresh' = "free"
    /\ tpc' = "delay"
    /\ fired' = <<>>
    /\ dropped' = <<>>
    /\ th_events' = {}
    /\ UNCHANGED <<img, ba_devdata, selfupdate, lst_refresh, ioerror, imgwriter_ioerror,
                   maxioerrors,
                   monitoring, looprunning, exitEvt, waitexit, imgAlive, op,
                   callarg, result, warned, log, failsSinceReset, consec>>
    /\ UNCHANGED <<refresh, freeze>>

\* TickDiff that keeps lck_refresh after the comparison also without freeze.
TickDiff_hold ==
    /\ tpc = "wait"
    /\ newdata
    /\ lck_refresh = "free"
    /\ LET acc == OnDevs(1, [fire |-> lst_fire, delay |-> dict_delay, cp |-> ba_datacp]) IN
           /\ lst_fire' = acc.fire
           /\ dict_delay' = acc.delay
           /\ ba_datacp' = acc.cp
    /\ newdata' = FALSE
    /\ lck_refresh' = "mainloop"
    /\ tpc' = "delay"
    /\ fired' = <<>>
    /\ dropped' = <<>>
    /\ th_events' = {}
    /\ UNCHANGED <<img, ba_devdata, selfupdate, lst_refresh, ioerror, imgwriter_ioerror,
                   maxioerrors,
                   monitoring, looprunning, exitEvt, waitexit, imgAlive, op,
                   callarg, result, warned, log, failsSinceReset, consec>>
    /\ UNCHANGED <<refresh, freeze>>

\* newdata.wait() returned True: newdata is cleared, lck_refresh is taken, the
\* refreshed devices are compared with their baselines, and without freeze
\* lck_refresh is released.
TickDiff ==
    /\ tpc = "wait"
    /\ newdata
    /\ lck_refresh = "free"
    /\ LET acc == OnDevs(1, [fire |-> lst_fire, delay |-> dict_delay, cp |-> ba_datacp]) IN
           /\ lst_fire' = acc.fire
           /\ dict_delay' = acc.delay
           /\ ba_datacp' = acc.cp
    /\ newdata' = FALSE
    /\ lck_refresh' = IF freeze THEN "mainloop" ELSE "free"
    /\ tpc' = "delay"
    /\ fired' = <<>>
    /\ dropped' = <<>>
    /\ th_events' = {}
    /\ UNCHANGED <<img, ba_devdata, selfupdate, lst_refresh, ioerror, imgwriter_ioerror,
                   maxioerrors,
                   monitoring, looprunning, exitEvt, waitexit, imgAlive, op,
                   callarg, result, warned, log, failsSinceReset, consec>>
    /\ UNCHANGED <<refresh, freeze>>

\* The delayed entries are looked at, in the order of their insertion.
TickDelay ==
    /\ tpc = "delay"
    /\ lst_fire' = lst_fire \o [i \in 1..Len(SelectSeq(dict_delay, Matured)) |->
                                   [tup |-> SelectSeq(dict_delay, Matured)[i].key,
                                    age |-> SelectSeq(dict_delay, Matured)[i].age]]
    /\ dict_delay' = LET rest == SelectSeq(dict_delay, LAMBDA e : ~Cancelled(e) /\ ~Matured(e))
                     IN  [i \in 1..Len(rest) |-> Older(rest[i])]
    /\ dropped' = SelectSeq(dict_delay, Cancelled)
    /\ tpc' = "fire"
    /\ UNCHANGED ioVars
    /\ UNCHANGED <<refresh, newdata, lck_refresh, freeze, fired, th_events>>

\* lst_fire is emptied from its end, each entry calling its function, in an
\* EventCallback thread that is started if as_thread is set; with freeze
\* lck_refresh is released after that.
TickFire ==
    /\ tpc = "fire"
    /\ fired' = Reverse(lst_fire)
    /\ th_events' = {lst_fire[i].tup : i \in {j \in 1..Len(lst_fire) : lst_fire[j].tup[1][3]}}
    /\ lst_fire' = <<>>
    /\ lck_refresh' = IF freeze THEN "free" ELSE lck_refresh
    /\ tpc' = "wait"
    /\ UNCHANGED ioVars
    /\ UNCHANGED <<refresh, newdata, freeze, dict_delay, dropped>>

\* The function of an EventCallback thread returns.
EventEnds ==
    /\ \E e \in th_events : th_events' = th_events \ {e}
    /\ UNCHANGED ioVars
    /\ UNCHANGED <<refresh, newdata, lck_refresh, freeze, lst_fire, dict_delay, tpc, fired, dropped>>

\* mainloop(freeze) has taken the baselines of the refreshed devices and is
\* about to wait for the coordinator for the first time.
InitTick ==
    /\ freeze \in BOOLEAN
    /\ img = [k \in ImgIndex |-> 0]
    /\ ba_devdata \in {[d \in Devices |-> [i \in DevIndex(d) |-> IF d = "d1" THEN b[i] ELSE 0]] :
                          b \in {x \in [DevIndex("d1") -> 0..3] : \A i \in DevIndex("d1") : x[i] \in TickByte(i)}}
    /\ ba_datacp = ba_devdata
    /\ selfupdate = [d \in Devices |-> TRUE]
    /\ lst_refresh = DeviceList
    /\ imgAlive = TRUE
    /\ monitoring = FALSE
    /\ ioerror = 0
    /\ imgwriter_ioerror = 0
    /\ maxioerrors = 0
    /\ looprunning = TRUE
    /\ exitEvt = FALSE
    /\ waitexit = FALSE
    /\ op = "mainloop"
    /\ callarg = "None"
    /\ result = "None"
    /\ warned = FALSE
    /\ log = <<>>
    /\ failsSinceReset = 0
    /\ consec = 0
    /\ refresh = DefaultRefresh
    /\ newdata = FALSE
    /\ lck_refresh = "free"
    /\ lst_fire = <<>>
    /\ dict_delay = <<>>
    /\ tpc = "wait"
    /\ fired = <<>>
    /\ dropped = <<>>
    /\ NoThreads
    /\ NoConfig

NextTick ==
    /\ \/ WriterRefresh
       \/ SetValue
       \/ TickDiff
       \/ TickDelay
       \/ TickFire
       \/ EventEnds
    /\ UNCHANGED thrVars
    /\ UNCHANGED cfgVars

SpecTick == InitTick /\ [][NextTick]_vars

\* ------------------------------ Spec: the threads of a program, the loops
\* and exit() a statement a step, and the coordinator.

\* What no step of the loops and of the coordinator changes.
quietVars == <<img, ioerror, imgwriter_ioerror, maxioerrors, monitoring, warned, log, failsSinceReset,
               consec, refresh, freeze, lst_fire, dict_delay, tpc, fired, dropped,
               op, callarg, result, filelock, th_events, asked, jconfigrsc, configured>>

Home(t) == IF t \in Spawned THEN "unborn" ELSE "idle"

\* The thread goes on in its call.
Goto(t, to) == pc' = [pc EXCEPT ![t] = to]

\* The thread leaves its call, by return or by raise; what the call returned
\* or raised is not followed here.
Return(t) ==
    /\ pc' = [pc EXCEPT ![t] = Home(t)]
    /\ lcl' = [lcl EXCEPT ![t] = NoLocals]

\* The checks at the head of cycleloop and mainloop.
LoopCheck == IF looprunning THEN "RuntimeError_multiple"
             ELSE IF Len(lst_refresh) = 0 THEN "RuntimeError_norefresh"
             ELSE "None"

\* cycleloop(func): the checks
CL_Check(t) ==
    /\ t \in Program
    /\ pc[t] = "idle"
    /\ IF LoopCheck = "None"
       THEN Goto(t, "cl_start") /\ UNCHANGED lcl
       ELSE Return(t)
    /\ UNCHANGED <<looprunning, exitEvt, waitexit, newdata, lck_refresh, imgAlive, wpc,
                   wstop, ba_devdata, ba_datacp, selfupdate, lst_refresh, cyc>>
    /\ UNCHANGED quietVars

\* self._looprunning = True
CL_Start(t) ==
    /\ pc[t] = "cl_start"
    /\ looprunning' = TRUE
    /\ Goto(t, "cl_top")
    /\ UNCHANGED <<lcl, exitEvt, waitexit, newdata, lck_refresh, imgAlive, wpc,
                   wstop, ba_devdata, ba_datacp, selfupdate, lst_refresh, cyc>>
    /\ UNCHANGED quietVars

\* The test of a loop and its newdata.wait(2.5): with new data the signal is
\* cleared; after the timeout the loop raises if the coordinator is gone and
\* exit is not set, and else tests again.
Wait(t, go, acq, top, end) ==
    IF ~go THEN Goto(t, end) /\ UNCHANGED <<lcl, newdata>> /\ cyc' = [cyc EXCEPT ![t] = <<>>]
    ELSE IF newdata
    THEN /\ newdata' = FALSE
         /\ Goto(t, acq)
         /\ cyc' = [cyc EXCEPT ![t] = <<"clear">>]
         /\ UNCHANGED lcl
    ELSE /\ IF ~exitEvt /\ ~imgAlive
            THEN Return(t)
            ELSE Goto(t, top) /\ UNCHANGED lcl
         /\ cyc' = [cyc EXCEPT ![t] = <<>>]
         /\ UNCHANGED newdata

\* while ec is None and not self._exit.is_set(): newdata.wait(), newdata.clear()
CL_Wait(t) ==
    /\ pc[t] = "cl_top"
    /\ Wait(t, lcl[t].ec = "None" /\ ~exitEvt, "cl_acq", "cl_top", "cl_end")
    /\ UNCHANGED <<looprunning, exitEvt, waitexit, lck_refresh, imgAlive, wpc, wstop,
                   ba_devdata, ba_datacp, selfupdate, lst_refresh>>
    /\ UNCHANGED quietVars

\* lck_refresh.acquire() without the lock
CL_Acquire_skip(t) ==
    /\ pc[t] = "cl_acq"
    /\ Goto(t, "cl_func")
    /\ cyc' = [cyc EXCEPT ![t] = Append(@, "acquire")]
    /\ UNCHANGED <<lcl, looprunning, exitEvt, waitexit, newdata, lck_refresh, imgAlive,
                   wpc, wstop, ba_devdata, ba_datacp, selfupdate, lst_refresh>>
    /\ UNCHANGED quietVars

\* self._imgwriter.lck_refresh.acquire()
CL_Acquire(t) ==
    /\ pc[t] = "cl_acq"
    /\ lck_refresh = "free"
    /\ lck_refresh' = t
    /\ Goto(t, "cl_func")
    /\ cyc' = [cyc EXCEPT ![t] = Append(@, "acquire")]
    /\ UNCHANGED <<lcl, looprunning, exitEvt, waitexit, newdata, imgAlive, wpc, wstop,
                   ba_devdata, ba_datacp, selfupdate, lst_refresh>>
    /\ UNCHANGED quietVars

\* ec = func(cycleinfo) returns; cycleinfo._docycle()
CL_Func(t) ==
    /\ pc[t] = "cl_func"
    /\ \E ec \in {"None", "1"} : lcl' = [lcl EXCEPT ![t].ec = ec]
    /\ Goto(t, "cl_rel")
    /\ cyc' = [cyc EXCEPT ![t] = @ \o <<"func", "docycle">>]
    /\ UNCHANGED <<looprunning, exitEvt, waitexit, newdata, lck_refresh, imgAlive,
                   wpc, wstop, ba_devdata, ba_datacp, selfupdate, lst_refresh>>
    /\ UNCHANGED quietVars

\* self._imgwriter.lck_refresh.release()
CL_Release(t) ==
    /\ pc[t] = "cl_rel"
    /\ lck_refresh' = "free"
    /\ Goto(t, "cl_top")
    /\ cyc' = [cyc EXCEPT ![t] = Append(@, "release")]
    /\ UNCHANGED <<lcl, looprunning, exitEvt, waitexit, newdata, imgAlive, wpc, wstop,
                   ba_devdata, ba_datacp, selfupdate, lst_refresh>>
    /\ UNCHANGED quietVars

\* self._looprunning = False; return ec
CL_End(t) ==
    /\ pc[t] = "cl_end"
    /\ looprunning' = FALSE
    /\ Return(t)
    /\ UNCHANGED <<exitEvt, waitexit, newdata, lck_refresh, imgAlive, wpc, wstop,
                   ba_devdata, ba_datacp, selfupdate, lst_refresh, cyc>>
    /\ UNCHANGED quietVars

\* mainloop(freeze, blocking) called by the program: the checks, and with
\* blocking=False the start of the thread that calls mainloop(freeze, True).
ML_Check(t) ==
    /\ t \in Program
    /\ pc[t] = "idle"
    /\ \E frz \in BOOLEAN, blocking \in BOOLEAN :
           IF LoopCheck # "None" THEN Return(t)
           ELSE IF blocking
                THEN /\ Goto(t, "ml_start")
                     /\ lcl' = [lcl EXCEPT ![t].freeze = frz]
                ELSE \E m \in Spawned :
                         /\ pc[m] = "unborn"
                         /\ pc' = [pc EXCEPT ![m] = "ml_entry"]
                         /\ lcl' = [lcl EXCEPT ![m].freeze = frz]
    /\ UNCHANGED <<looprunning, exitEvt, waitexit, newdata, lck_refresh, imgAlive, wpc,
                   wstop, ba_devdata, ba_datacp, selfupdate, lst_refresh, cyc>>
    /\ UNCHANGED quietVars

\* The started thread enters mainloop(freeze, True): the checks again.
ML_Entry(t) ==
    /\ t \in Spawned
    /\ pc[t] = "ml_entry"
    /\ IF LoopCheck = "None"
       THEN Goto(t, "ml_start") /\ UNCHANGED lcl
       ELSE Return(t)
    /\ UNCHANGED <<looprunning, exitEvt, waitexit, newdata, lck_refresh, imgAlive, wpc,
                   wstop, ba_devdata, ba_datacp, selfupdate, lst_refresh, cyc>>
    /\ UNCHANGED quietVars

\* self._exit.clear(); self._looprunning = True; the baselines are copied
ML_Start(t) ==
    /\ pc[t] = "ml_start"
    /\ exitEvt' = FALSE
    /\ looprunning' = TRUE
    /\ ba_datacp' = [d \in Devices |-> IF d \in Range(lst_refresh) THEN ba_devdata[d]
                                       ELSE ba_datacp[d]]
    /\ Goto(t, "ml_top")
    /\ UNCHANGED <<lcl, waitexit, newdata, lck_refresh, imgAlive, wpc, wstop,
                   ba_devdata, selfupdate, lst_refresh, cyc>>
    /\ UNCHANGED quietVars

\* while not self._exit.is_set(): newdata.wait(), newdata.clear()
ML_Wait(t) ==
    /\ pc[t] = "ml_top"
    /\ Wait(t, ~exitEvt, "ml_diff", "ml_top", "ml_end")
    /\ UNCHANGED <<looprunning, exitEvt, waitexit, lck_refresh, imgAlive, wpc, wstop,
                   ba_devdata, ba_datacp, selfupdate, lst_refresh>>
    /\ UNCHANGED quietVars

\* lck_refresh.acquire(); the refreshed devices are compared with their
\* baselines, which follow; the lock is released without freeze.  The events
\* found are not followed here.
ML_Diff(t) ==
    /\ pc[t] = "ml_diff"
    /\ lck_refresh = "free"
    /\ ba_datacp' = OnDevs(1, [fire |-> <<>>, delay |-> <<>>, cp |-> ba_datacp]).cp
    /\ lck_refresh' = IF lcl[t].freeze THEN t ELSE "free"
    /\ Goto(t, "ml_fire")
    /\ cyc' = [cyc EXCEPT ![t] = <<>>]
    /\ UNCHANGED <<lcl, looprunning, exitEvt, waitexit, newdata, imgAlive, wpc, wstop,
                   ba_devdata, selfupdate, lst_refresh>>
    /\ UNCHANGED quietVars

\* The delayed entries are counted down and the callbacks are called; the lock
\* is released with freeze.
ML_Fire(t) ==
    /\ pc[t] = "ml_fire"
    /\ lck_refresh' = IF lcl[t].freeze THEN "free" ELSE lck_refresh
    /\ Goto(t, "ml_top")
    /\ UNCHANGED <<lcl, looprunning, exitEvt, waitexit, newdata, imgAlive, wpc, wstop,
                   ba_devdata, ba_datacp, selfupdate, lst_refresh, cyc>>
    /\ UNCHANGED quietVars

\* self._looprunning = False
ML_End(t) ==
    /\ pc[t] = "ml_end"
    /\ looprunning' = FALSE
    /\ Return(t)
    /\ UNCHANGED <<exitEvt, waitexit, newdata, lck_refresh, imgAlive, wpc, wstop,
                   ba_devdata, ba_datacp, selfupdate, lst_refresh, cyc>>
    /\ UNCHANGED quietVars

\* exit(full): self._exit.set(); self._waitexit.set(); with full the
\* coordinator, if alive, is told to stop.
EX_Set(t) ==
    /\ t \in Program
    /\ pc[t] = "idle"
    /\ exitEvt' = TRUE
    /\ waitexit' = TRUE
    /\ \E full \in BOOLEAN :
           /\ lcl' = [lcl EXCEPT ![t].full = full]
           /\ wstop' = IF full /\ imgAlive THEN TRUE ELSE wstop
           /\ Goto(t, IF full THEN "ex_release" ELSE "ex_end")
    /\ UNCHANGED <<looprunning, newdata, lck_refresh, imgAlive, wpc, ba_devdata,
                   ba_datacp, selfupdate, lst_refresh, cyc>>
    /\ UNCHANGED quietVars

\* join() returns, the coordinator gone or not;
\* while len(self._lst_refresh) > 0: the devices are released
EX_Release(t) ==
    /\ pc[t] = "ex_release"
    /\ LET r == exit_refresh({}, Here) IN
           /\ img' = r.img
           /\ ba_devdata' = r.dd
           /\ selfupdate' = r.su
           /\ lst_refresh' = r.lst
           /\ IF r.result = "None"
              THEN Goto(t, "ex_end") /\ UNCHANGED lcl
              ELSE Return(t)
    /\ UNCHANGED <<looprunning, exitEvt, waitexit, newdata, lck_refresh, imgAlive, wpc,
                   wstop, ba_datacp, cyc>>
    /\ UNCHANGED <<ioerror, imgwriter_ioerror, maxioerrors, monitoring, warned, log, failsSinceReset,
                   consec, refresh, freeze, lst_fire, dict_delay, tpc, fired, dropped,
                   op, callarg, result, filelock, th_events, asked, jconfigrsc, configured>>

\* self._looprunning = False
EX_End(t) ==
    /\ pc[t] = "ex_end"
    /\ looprunning' = FALSE
    /\ Return(t)
    /\ UNCHANGED <<exitEvt, waitexit, newdata, lck_refresh, imgAlive, wpc, wstop,
                   ba_devdata, ba_datacp, selfupdate, lst_refresh, cyc>>
    /\ UNCHANGED quietVars

\* The coordinator takes lck_refresh for a cycle.
W_Acquire ==
    /\ wpc = "sleep"
    /\ ~wstop
    /\ lck_refresh = "free"
    /\ lck_refresh' = "writer"
    /\ wpc' = "locked"
    /\ UNCHANGED <<pc, lcl, looprunning, exitEvt, waitexit, newdata,
                   imgAlive, wstop, ba_devdata, ba_datacp, selfupdate, lst_refresh, cyc>>
    /\ UNCHANGED quietVars

\* It reads the inputs of the refreshed devices, releases lck_refresh and sets
\* newdata.
W_Refresh ==
    /\ wpc = "locked"
    /\ \E v \in Byte :
           ba_devdata' = [d \in Devices |->
                             [i \in DevIndex(d) |-> IF d \in Range(lst_refresh) /\ i \in slc_inp(d)
                                                    THEN v ELSE ba_devdata[d][i]]]
    /\ lck_refresh' = "free"
    /\ newdata' = TRUE
    /\ wpc' = "sleep"
    /\ UNCHANGED <<pc, lcl, looprunning, exitEvt, waitexit, imgAlive,
                   wstop, ba_datacp, selfupdate, lst_refresh, cyc>>
    /\ UNCHANGED quietVars

\* Told to stop, it ends.
W_Stop ==
    /\ wpc = "sleep"
    /\ wstop
    /\ wpc' = "dead"
    /\ imgAlive' = FALSE
    /\ UNCHANGED <<pc, lcl, looprunning, exitEvt, waitexit, newdata,
                   lck_refresh, wstop, ba_devdata, ba_datacp, selfupdate, lst_refresh, cyc>>
    /\ UNCHANGED quietVars

\* RevPiModIO(autorefresh=True): every device is refreshed by the coordinator.
Init ==
    /\ InitIO
    /\ img = [k \in ImgIndex |-> 0]
    /\ ~monitoring
    /\ imgAlive
    /\ ba_devdata = [d \in Devices |-> [i \in DevIndex(d) |-> 0]]

Next ==
    \/ \E t \in Threads :
           \/ CL_Check(t)
           \/ CL_Start(t)
           \/ CL_Wait(t)
           \/ CL_Acquire(t)
           \/ CL_Func(t)
           \/ CL_Release(t)
           \/ CL_End(t)
           \/ ML_Check(t)
           \/ ML_Entry(t)
           \/ ML_Start(t)
           \/ ML_Wait(t)
           \/ ML_Diff(t)
           \/ ML_Fire(t)
           \/ ML_End(t)
           \/ EX_Set(t)
           \/ EX_Release(t)
           \/ EX_End(t)
    \/ W_Acquire
    \/ W_Refresh
    \/ W_Stop

Spec == Init /\ [][Next]_vars

\* -------------------- SpecLock: readprocimg and syncoutputs in two threads
\* and the baseline copies of a mainloop, a statement a step.

\* What no step of SpecLock changes.
stillVars == <<ioerror, imgwriter_ioerror, maxioerrors, monitoring, looprunning, exitEvt, waitexit,
               imgAlive, op, callarg, result, warned, log, failsSinceReset, consec,
               refresh, newdata, lck_refresh, freeze, lst_fire, dict_delay, tpc,
               fired, dropped, wpc, wstop, cyc, th_events, asked, jconfigrsc, configured>>

\* readprocimg(device) or syncoutputs(device) up to the read of the file; the
\* device is given as an object or not at all.
IO_Call(t) ==
    /\ t \in Program
    /\ pc[t] = "idle"
    /\ \E kind \in {"readprocimg", "syncoutputs"} :
       \E device \in {<<"None">>} \cup {<<"obj", d>> : d \in Devices} :
           IF device[1] # "None" /\ selfupdate[device[2]]
           THEN Return(t)
           ELSE /\ lcl' = [lcl EXCEPT ![t].kind = kind, ![t].bytesbuff = img,
                                      ![t].todo = mylist(device)]
                /\ Goto(t, "io_next")
    /\ UNCHANGED <<img, ba_devdata, ba_datacp, selfupdate, lst_refresh, filelock>>
    /\ UNCHANGED stillVars

\* for dev in mylist: if not dev._selfupdate
IO_Next(t) ==
    /\ pc[t] = "io_next"
    /\ IF lcl[t].todo = <<>>
       THEN Return(t)
       ELSE IF ~selfupdate[Head(lcl[t].todo)]
            THEN Goto(t, "io_acq") /\ UNCHANGED lcl
            ELSE /\ lcl' = [lcl EXCEPT ![t].todo = Tail(@)]
                 /\ UNCHANGED pc
    /\ UNCHANGED <<img, ba_devdata, ba_datacp, selfupdate, lst_refresh, filelock>>
    /\ UNCHANGED stillVars

\* dev._filelock.acquire() without the lock
IO_Acquire_skip(t) ==
    /\ pc[t] = "io_acq"
    /\ Goto(t, "io_assign")
    /\ UNCHANGED <<lcl, img, ba_devdata, ba_datacp, selfupdate, lst_refresh, filelock>>
    /\ UNCHANGED stillVars

\* dev._filelock.acquire()
IO_Acquire(t) ==
    /\ pc[t] = "io_acq"
    /\ filelock[Head(lcl[t].todo)] = "free"
    /\ filelock' = [filelock EXCEPT ![Head(lcl[t].todo)] = t]
    /\ Goto(t, "io_assign")
    /\ UNCHANGED <<lcl, img, ba_devdata, ba_datacp, selfupdate, lst_refresh>>
    /\ UNCHANGED stillVars

\* The assignment into dev._ba_devdata.
IO_Assign(t) ==
    /\ pc[t] = "io_assign"
    /\ LET dev == Head(lcl[t].todo) IN
           ba_devdata' = [ba_devdata EXCEPT ![dev] =
                             IF lcl[t].kind = "readprocimg"
                             THEN ReadInto(dev, @, lcl[t].bytesbuff)
                             ELSE SyncInto(dev, @, lcl[t].bytesbuff)]
    /\ Goto(t, "io_rel")
    /\ UNCHANGED <<lcl, img, ba_datacp, selfupdate, lst_refresh, filelock>>
    /\ UNCHANGED stillVars

\* dev._filelock.release()
IO_Release(t) ==
    /\ pc[t] = "io_rel"
    /\ filelock' = [filelock EXCEPT ![Head(lcl[t].todo)] = "free"]
    /\ lcl' = [lcl EXCEPT ![t].todo = Tail(@)]
    /\ Goto(t, "io_next")
    /\ UNCHANGED <<img, ba_devdata, ba_datacp, selfupdate, lst_refresh>>
    /\ UNCHANGED stillVars

\* mainloop starts one of its loops over self._lst_refresh: the loop at its
\* entry, and after it the loop of a tick.
CP_Begin(t) ==
    /\ t \in Spawned
    /\ pc[t] \in {"cp_entry", "cp_tick"}
    /\ lcl' = [lcl EXCEPT ![t].kind = pc[t], ![t].todo = lst_refresh]
    /\ Goto(t, "cp_next")
    /\ UNCHANGED <<img, ba_devdata, ba_datacp, selfupdate, lst_refresh, filelock>>
    /\ UNCHANGED stillVars

\* for dev in self._lst_refresh; a tick passes a device without registrations
\* or without a change.
CP_Next(t) ==
    /\ pc[t] = "cp_next"
    /\ IF lcl[t].todo = <<>>
       THEN Goto(t, "cp_tick") /\ lcl' = [lcl EXCEPT ![t] = NoLocals]
       ELSE LET dev == Head(lcl[t].todo) IN
            IF lcl[t].kind = "cp_tick"
               /\ (Len(dict_events(dev)) = 0 \/ ba_datacp[dev] = ba_devdata[dev])
            THEN /\ lcl' = [lcl EXCEPT ![t].todo = Tail(@)]
                 /\ UNCHANGED pc
            ELSE Goto(t, "cp_acq") /\ UNCHANGED lcl
    /\ UNCHANGED <<img, ba_devdata, ba_datacp, selfupdate, lst_refresh, filelock>>
    /\ UNCHANGED stillVars

\* dev._filelock.acquire()
CP_Acquire(t) ==
    /\ pc[t] = "cp_acq"
    /\ filelock[Head(lcl[t].todo)] = "free"
    /\ filelock' = [filelock EXCEPT ![Head(lcl[t].todo)] = t]
    /\ Goto(t, "cp_copy")
    /\ UNCHANGED <<lcl, img, ba_devdata, ba_datacp, selfupdate, lst_refresh>>
    /\ UNCHANGED stillVars

\* dev._ba_datacp = dev._ba_devdata[:]
CP_Copy(t) ==
    /\ pc[t] = "cp_copy"
    /\ ba_datacp' = [ba_datacp EXCEPT ![Head(lcl[t].todo)] = ba_devdata[Head(lcl[t].todo)]]
    /\ Goto(t, "cp_rel")
    /\ UNCHANGED <<lcl, img, ba_devdata, selfupdate, lst_refresh, filelock>>
    /\ UNCHANGED stillVars

\* dev._filelock.release()
CP_Release(t) ==
    /\ pc[t] = "cp_rel"
    /\ filelock' = [filelock EXCEPT ![Head(lcl[t].todo)] = "free"]
    /\ lcl' = [lcl EXCEPT ![t].todo = Tail(@)]
    /\ Goto(t, "cp_next")
    /\ UNCHANGED <<img, ba_devdata, ba_datacp, selfupdate, lst_refresh>>
    /\ UNCHANGED stillVars

\* The coordinator reads the inputs of a refreshed device, under its lock.
WriterDev ==
    /\ \E d \in Devices :
           /\ selfupdate[d]
           /\ filelock[d] = "free"
           /\ ba_devdata' = [ba_devdata EXCEPT ![d] =
                                [i \in DevIndex(d) |-> IF i \in slc_inp(d) THEN img[AbsIndex(d, i)]
                                                       ELSE @[i]]]
           /\ ba_devdata' # ba_devdata
    /\ UNCHANGED <<pc, lcl, img, ba_datacp, selfupdate, lst_refresh, filelock>>
    /\ UNCHANGED stillVars

\* dev.autorefresh() of the device with the registrations.
AutorefreshLate ==
    /\ ~selfupdate["d1"]
    /\ selfupdate' = [selfupdate EXCEPT !["d1"] = TRUE]
    /\ lst_refresh' = Append(lst_refresh, "d1")
    /\ UNCHANGED <<pc, lcl, img, ba_devdata, ba_datacp, filelock>>
    /\ UNCHANGED stillVars

\* The hardware changes an input byte of the process image.
InputChanges ==
    /\ \E d \in Devices, v \in Byte :
       \E i \in slc_inp(d) :
           /\ img[AbsIndex(d, i)] # v
           /\ img' = [img EXCEPT ![AbsIndex(d, i)] = v]
    /\ UNCHANGED <<pc, lcl, ba_devdata, ba_datacp, selfupdate, lst_refresh, filelock>>
    /\ UNCHANGED stillVars

\* d2 is refreshed and a mainloop is entered in m1; the outputs in the file
\* differ from the buffers.
InitLock ==
    /\ img = [k \in ImgIndex |-> 1]
    /\ ba_devdata = [d \in Devices |-> [i \in DevIndex(d) |-> 0]]
    /\ ba_datacp = ba_devdata
    /\ selfupdate = [d \in Devices |-> d = "d2"]
    /\ lst_refresh = <<"d2">>
    /\ imgAlive = TRUE
    /\ monitoring = FALSE
    /\ ioerror = 0
    /\ imgwriter_ioerror = 0
    /\ maxioerrors = 0
    /\ looprunning = TRUE
    /\ exitEvt = FALSE
    /\ waitexit = FALSE
    /\ op = "mainloop"
    /\ callarg = "None"
    /\ result = "None"
    /\ warned = FALSE
    /\ log = <<>>
    /\ failsSinceReset = 0
    /\ consec = 0
    /\ refresh = DefaultRefresh
    /\ newdata = FALSE
    /\ lck_refresh = "free"
    /\ freeze = FALSE
    /\ lst_fire = <<>>
    /\ dict_delay = <<>>
    /\ tpc = "idle"
    /\ fired = <<>>
    /\ dropped = <<>>
    /\ pc = [t \in Threads |-> IF t \in Spawned THEN "cp_entry" ELSE "idle"]
    /\ lcl = [t \in Threads |-> NoLocals]
    /\ wpc = "sleep"
    /\ wstop = FALSE
    /\ filelock = [d \in Devices |-> "free"]
    /\ cyc = [t \in Threads |-> <<>>]
    /\ NoConfig

NextLock ==
    \/ \E t \in Threads :
           \/ IO_Call(t)
           \/ IO_Next(t)
           \/ IO_Acquire(t)
           \/ IO_Assign(t)
           \/ IO_Release(t)
           \/ CP_Begin(t)
           \/ CP_Next(t)
           \/ CP_Acquire(t)
           \/ CP_Copy(t)
           \/ CP_Release(t)
    \/ WriterDev
    \/ AutorefreshLate
    \/ InputChanges

SpecLock == InitLock /\ [][NextLock]_vars

\* ------------- SpecLoop: a loop and what it returns, exit() and cycletime

\* The cycle times the program sets.
CycleTimes == {DefaultRefresh, 2 * DefaultRefresh}

\* What no step of a loop, of exit() and of the coordinator changes here.
keptVars == <<img, ioerror, imgwriter_ioerror, maxioerrors, monitoring, warned, log, failsSinceReset,
              consec, freeze, lst_fire, dict_delay, tpc, fired, dropped, filelock,
              th_events, jconfigrsc, configured, cyc>>

\* The places of a thread in a call of cycleloop or mainloop, and those
\* inside the body of the while loop.
LoopPcs == {"lp_entry", "lp_start", "lp_top", "lp_wait", "lp_isset", "lp_alive",
            "lp_acq", "lp_func", "lp_rel", "lp_end"}

BodyPcs == {"lp_wait", "lp_isset", "lp_alive", "lp_acq", "lp_func", "lp_rel"}

InCall == {u \in Threads : pc[u] \in LoopPcs}

\* The thread goes on in its call.
Stays == UNCHANGED <<op, callarg, result, asked>>

\* The call of the thread returns or raises r.
Done(t, name, r) ==
    /\ pc' = [pc EXCEPT ![t] = Home(t)]
    /\ lcl' = [lcl EXCEPT ![t] = NoLocals]
    /\ op' = name
    /\ callarg' = t
    /\ result' = r
    /\ asked' = asked \ {t}

\* cycleloop(func, cycletime) or mainloop(blocking) called by t1, which starts
\* one loop at a time: the checks, for cycleloop the cycle time, and with
\* blocking=False the start of the thread that calls mainloop.
LP_Call(t) ==
    /\ t = "t1"
    /\ pc[t] = "idle"
    /\ \A m \in Spawned : pc[m] = "unborn"
    /\ \E kind \in {"cycleloop", "mainloop"}, blocking \in BOOLEAN :
       \E given \in BOOLEAN, cycletime \in CycleTimes :
           /\ kind = "cycleloop" => blocking
           /\ kind = "mainloop" => ~given
           /\ ~given => cycletime = DefaultRefresh
           /\ IF LoopCheck # "None"
              THEN Done(t, kind, LoopCheck) /\ UNCHANGED refresh
              ELSE IF blocking
              THEN /\ Goto(t, "lp_start")
                   /\ lcl' = [lcl EXCEPT ![t].kind = kind]
                   /\ refresh' = IF given THEN cycletime ELSE refresh
                   /\ Stays
              ELSE \E m \in Spawned :
                       /\ pc[m] = "unborn"
                       /\ pc' = [pc EXCEPT ![m] = "lp_entry"]
                       /\ lcl' = [lcl EXCEPT ![m].kind = kind]
                       /\ op' = kind
                       /\ callarg' = t
                       /\ result' = "None"
                       /\ UNCHANGED <<asked, refresh>>
    /\ UNCHANGED <<looprunning, exitEvt, waitexit, newdata, lck_refresh, imgAlive, wpc,
                   wstop, ba_devdata, ba_datacp, selfupdate, lst_refresh>>
    /\ UNCHANGED keptVars

\* The started thread enters mainloop(freeze, True): the checks again.
LP_Entry(t) ==
    /\ pc[t] = "lp_entry"
    /\ IF LoopCheck = "None"
       THEN Goto(t, "lp_start") /\ UNCHANGED lcl /\ Stays
       ELSE Done(t, lcl[t].kind, LoopCheck)
    /\ UNCHANGED <<looprunning, exitEvt, waitexit, newdata, lck_refresh, imgAlive, wpc,
                   wstop, ba_devdata, ba_datacp, selfupdate, lst_refresh, refresh>>
    /\ UNCHANGED keptVars

\* cycleloop: self._looprunning = True; mainloop: self._exit.clear(),
\* self._looprunning = True, and the baselines are copied.
LP_Start(t) ==
    /\ pc[t] = "lp_start"
    /\ looprunning' = TRUE
    /\ IF lcl[t].kind = "mainloop"
       THEN /\ exitEvt' = FALSE
            /\ ba_datacp' = [d \in Devices |-> IF d \in Range(lst_refresh) THEN ba_devdata[d]
                                               ELSE ba_datacp[d]]
       ELSE UNCHANGED <<exitEvt, ba_datacp>>
    /\ Goto(t, "lp_top")
    /\ Stays
    /\ UNCHANGED <<lcl, waitexit, newdata, lck_refresh, imgAlive, wpc, wstop,
                   ba_devdata, selfupdate, lst_refresh, refresh>>
    /\ UNCHANGED keptVars

\* The test of the while loop that does not look at ec.
LP_Test_noec(t) ==
    /\ pc[t] = "lp_top"
    /\ Goto(t, IF ~exitEvt THEN "lp_wait" ELSE "lp_end")
    /\ Stays
    /\ UNCHANGED <<lcl, looprunning, exitEvt, waitexit, newdata, lck_refresh, imgAlive,
                   wpc, wstop, ba_devdata, ba_datacp, selfupdate, lst_refresh, refresh>>
    /\ UNCHANGED keptVars

\* while ec is None and not self._exit.is_set():
\* while not self._exit.is_set():
LP_Test(t) ==
    /\ pc[t] = "lp_top"
    /\ Goto(t, IF (lcl[t].kind = "cycleloop" => lcl[t].ec = "None") /\ ~exitEvt
               THEN "lp_wait" ELSE "lp_end")
    /\ Stays
    /\ UNCHANGED <<lcl, looprunning, exitEvt, waitexit, newdata, lck_refresh, imgAlive,
                   wpc, wstop, ba_devdata, ba_datacp, selfupdate, lst_refresh, refresh>>
    /\ UNCHANGED keptVars

\* newdata.wait(2.5): with new data newdata.clear() follows, without the two
\* tests of the timeout.
LP_Wait(t) ==
    /\ pc[t] = "lp_wait"
    /\ IF newdata
       THEN newdata' = FALSE /\ Goto(t, "lp_acq")
       ELSE UNCHANGED newdata /\ Goto(t, "lp_isset")
    /\ Stays
    /\ UNCHANGED <<lcl, looprunning, exitEvt, waitexit, lck_refresh, imgAlive,
                   wpc, wstop, ba_devdata, ba_datacp, selfupdate, lst_refresh, refresh>>
    /\ UNCHANGED keptVars

\* if not self._exit.is_set() and ...: else continue
LP_IsSet(t) ==
    /\ pc[t] = "lp_isset"
    /\ Goto(t, IF exitEvt THEN "lp_top" ELSE "lp_alive")
    /\ Stays
    /\ UNCHANGED <<lcl, looprunning, exitEvt, waitexit, newdata, lck_refresh, imgAlive,
                   wpc, wstop, ba_devdata, ba_datacp, selfupdate, lst_refresh, refresh>>
    /\ UNCHANGED keptVars

\* ... and not self._imgwriter.is_alive(): raise RuntimeError; else continue
LP_IsAlive(t) ==
    /\ pc[t] = "lp_alive"
    /\ IF ~imgAlive
       THEN Done(t, lcl[t].kind, "RuntimeError_notrunning")
       ELSE Goto(t, "lp_top") /\ UNCHANGED lcl /\ Stays
    /\ UNCHANGED <<looprunning, exitEvt, waitexit, newdata, lck_refresh, imgAlive,
                   wpc, wstop, ba_devdata, ba_datacp, selfupdate, lst_refresh, refresh>>
    /\ UNCHANGED keptVars

\* lck_refresh.acquire(); mainloop, without freeze, compares the refreshed
\* devices with their baselines, which follow, and releases the lock.
LP_Acquire(t) ==
    /\ pc[t] = "lp_acq"
    /\ lck_refresh = "free"
    /\ IF lcl[t].kind = "mainloop"
       THEN /\ ba_datacp' = OnDevs(1, [fire |-> <<>>, delay |-> <<>>, cp |-> ba_datacp]).cp
            /\ UNCHANGED lck_refresh
       ELSE /\ lck_refresh' = t
            /\ UNCHANGED ba_datacp
    /\ Goto(t, "lp_func")
    /\ Stays
    /\ UNCHANGED <<lcl, looprunning, exitEvt, waitexit, newdata, imgAlive,
                   wpc, wstop, ba_devdata, selfupdate, lst_refresh, refresh>>
    /\ UNCHANGED keptVars

\* cycleloop: ec = func(cycleinfo) returns, and cycleinfo._docycle();
\* mainloop: the callbacks are called.  The function may call exit(full=False).
LP_Func(t) ==
    /\ pc[t] = "lp_func"
    /\ \E ec \in {"None", "1"}, exits \in BOOLEAN :
           /\ lcl[t].kind = "mainloop" => ec = "None"
           /\ lcl' = [lcl EXCEPT ![t].ec = ec]
           /\ IF exits
              THEN /\ exitEvt' = TRUE
                   /\ waitexit' = TRUE
                   /\ looprunning' = FALSE
                   /\ asked' = asked \cup InCall
              ELSE UNCHANGED <<exitEvt, waitexit, looprunning, asked>>
    /\ Goto(t, IF lcl[t].kind = "mainloop" THEN "lp_top" ELSE "lp_rel")
    /\ UNCHANGED <<op, callarg, result>>
    /\ UNCHANGED <<newdata, lck_refresh, imgAlive, wpc, wstop, ba_devdata, ba_datacp,
                   selfupdate, lst_refresh, refresh>>
    /\ UNCHANGED keptVars

\* ec = func(cycleinfo) raises in cycleloop, or a callback that mainloop calls
\* inline raises: the exception leaves the call from that statement.
LP_Raise(t) ==
    /\ pc[t] = "lp_func"
    /\ Done(t, lcl[t].kind, "Exception")
    /\ UNCHANGED <<looprunning, exitEvt, waitexit, newdata, lck_refresh, imgAlive, wpc,
                   wstop, ba_devdata, ba_datacp, selfupdate, lst_refresh, refresh>>
    /\ UNCHANGED keptVars

\* self._imgwriter.lck_refresh.release()
LP_Release(t) ==
    /\ pc[t] = "lp_rel"
    /\ lck_refresh' = "free"
    /\ Goto(t, "lp_top")
    /\ Stays
    /\ UNCHANGED <<lcl, looprunning, exitEvt, waitexit, newdata, imgAlive,
                   wpc, wstop, ba_devdata, ba_datacp, selfupdate, lst_refresh, refresh>>
    /\ UNCHANGED keptVars

\* self._looprunning = False; cycleloop: return ec
LP_End(t) ==
    /\ pc[t] = "lp_end"
    /\ looprunning' = FALSE
    /\ Done(t, lcl[t].kind, IF lcl[t].kind = "cycleloop" THEN lcl[t].ec ELSE "None")
    /\ UNCHANGED <<exitEvt, waitexit, newdata, lck_refresh, imgAlive, wpc, wstop,
                   ba_devdata, ba_datacp, selfupdate, lst_refresh, refresh>>
    /\ UNCHANGED keptVars

\* exit(full) called by t2: self._exit.set(); self._waitexit.set(); with full
\* the coordinator, if alive, is told to stop.
X_Set(t) ==
    /\ t = "t2"
    /\ pc[t] = "idle"
    /\ exitEvt' = TRUE
    /\ waitexit' = TRUE
    /\ asked' = asked \cup InCall
    /\ \E full \in BOOLEAN :
           /\ lcl' = [lcl EXCEPT ![t].full = full]
           /\ wstop' = IF full /\ imgAlive THEN TRUE ELSE wstop
           /\ Goto(t, IF full THEN "ex_release" ELSE "ex_end")
    /\ UNCHANGED <<op, callarg, result>>
    /\ UNCHANGED <<looprunning, newdata, lck_refresh, imgAlive, wpc, ba_devdata,
                   ba_datacp, selfupdate, lst_refresh, refresh>>
    /\ UNCHANGED keptVars

\* The property cycletime is set by t2.
SetCycletime(t) ==
    /\ t = "t2"
    /\ pc[t] = "idle"
    /\ \E milliseconds \in CycleTimes :
           IF looprunning
           THEN result' = "RuntimeError_looprunning" /\ UNCHANGED refresh
           ELSE result' = "None" /\ refresh' = milliseconds
    /\ op' = "cycletime"
    /\ callarg' = t
    /\ UNCHANGED <<pc, lcl, asked, looprunning, exitEvt, waitexit, newdata, lck_refresh,
                   imgAlive, wpc, wstop, ba_devdata, ba_datacp, selfupdate, lst_refresh>>
    /\ UNCHANGED keptVars

\* The coordinator ends by itself.
W_Dies ==
    /\ wpc = "sleep"
    /\ ~wstop
    /\ wpc' = "dead"
    /\ imgAlive' = FALSE
    /\ UNCHANGED <<pc, lcl, looprunning, exitEvt, waitexit, newdata,
                   lck_refresh, wstop, ba_devdata, ba_datacp, selfupdate, lst_refresh, cyc>>
    /\ UNCHANGED quietVars

\* The steps of a thread inside a call.
InCallStep(t) ==
    \/ LP_Entry(t)
    \/ LP_Start(t)
    \/ LP_Test(t)
    \/ LP_Wait(t)
    \/ LP_IsSet(t)
    \/ LP_IsAlive(t)
    \/ LP_Acquire(t)
    \/ LP_Func(t)
    \/ LP_Release(t)
    \/ LP_End(t)
    \/ EX_Release(t)
    \/ EX_End(t)

NextLoop ==
    \/ \E t \in Threads :
           \/ LP_Call(t)
           \/ X_Set(t)
           \/ SetCycletime(t)
           \/ InCallStep(t)
           \/ LP_Raise(t)
    \/ W_Acquire
    \/ W_Refresh
    \/ W_Stop
    \/ W_Dies

SpecLoop == Init /\ [][NextLoop]_vars

\* The loops with functions that return, exit() and a coordinator that ends
\* only when it is stopped.
NextExit ==
    \/ \E t \in Threads :
           \/ LP_Call(t)
           \/ X_Set(t)
           \/ InCallStep(t)
    \/ W_Acquire
    \/ W_Refresh
    \/ W_Stop

\* Every thread inside a call goes on, it gets the lock that is free again and
\* again, and the coordinator goes on.
SpecLoopFair ==
    /\ Init
    /\ [][NextExit]_vars
    /\ \A t \in Threads : WF_vars(InCallStep(t)) /\ SF_vars(LP_Acquire(t))
    /\ WF_vars(W_Acquire \/ W_Refresh \/ W_Stop)

\* --------- SpecCount: the two error counters and the property ioerrors

\* _get_ioerrors
get_ioerrors == IF looprunning THEN imgwriter_ioerror ELSE ioerror

\* The property ioerrors is read.
Ioerrors ==
    /\ Leaves("ioerrors", <<"None">>, [Here EXCEPT !.result = ToString(get_ioerrors)])
    /\ UNCHANGED <<ba_datacp, imgwriter_ioerror, maxioerrors, monitoring, looprunning,
                   exitEvt, waitexit, imgAlive>>

\* A cycle of the coordinator in which the access to the file fails: the
\* coordinator counts the failure in its own counter.
WriterFails ==
    /\ imgAlive
    /\ Len(lst_refresh) > 0
    /\ imgwriter_ioerror < MaxIoErr
    /\ imgwriter_ioerror' = imgwriter_ioerror + 1
    /\ UNCHANGED <<img, ba_devdata, ba_datacp, selfupdate, lst_refresh, ioerror, maxioerrors,
                   monitoring, looprunning, exitEvt, waitexit, imgAlive, op, callarg,
                   result, warned, log, failsSinceReset, consec>>

\* cycleloop or mainloop is called: the checks, and the start of the run.
LoopEnters ==
    \E kind \in {"cycleloop", "mainloop"} :
        IF LoopCheck # "None"
        THEN /\ Leaves(kind, <<"None">>, [Here EXCEPT !.result = LoopCheck])
             /\ UNCHANGED <<ba_datacp, imgwriter_ioerror, maxioerrors, monitoring,
                            looprunning, exitEvt, waitexit, imgAlive>>
        ELSE /\ looprunning' = TRUE
             /\ exitEvt' = IF kind = "mainloop" THEN FALSE ELSE exitEvt
             /\ ba_datacp' = IF kind = "mainloop"
                             THEN [d \in Devices |-> IF d \in Range(lst_refresh)
                                                     THEN ba_devdata[d] ELSE ba_datacp[d]]
                             ELSE ba_datacp
             /\ UNCHANGED <<img, ba_devdata, selfupdate, lst_refresh, ioerror,
                            imgwriter_ioerror, maxioerrors, monitoring, waitexit, imgAlive,
                            op, callarg, result, warned, log, failsSinceReset, consec>>

\* The loop ends: self._looprunning = False, and the call returns.
LoopReturns ==
    /\ looprunning
    /\ looprunning' = FALSE
    /\ UNCHANGED <<img, ba_devdata, ba_datacp, selfupdate, lst_refresh, ioerror,
                   imgwriter_ioerror, maxioerrors, monitoring, exitEvt, waitexit, imgAlive,
                   op, callarg, result, warned, log, failsSinceReset, consec>>

NextCount ==
    /\ \/ Readprocimg(MaxIoErr)
       \/ Resetioerrors
       \/ Autorefresh
       \/ Exit(MaxIoErr)
       \/ Ioerrors
       \/ WriterFails
       \/ LoopEnters
       \/ LoopReturns
    /\ UNCHANGED tickVars
    /\ UNCHANGED thrVars
    /\ UNCHANGED cfgVars

SpecCount == InitErr /\ [][NextCount]_vars

\* ------------------- SpecCfg: _configure, applied to a list of devices

\* The devices of jconfigrsc["Devices"]: type, name, position, offset, and the
\* length of the IOs.
CfgTypes == {"LEFT_RIGHT", "UNKNOWN"}
CfgNames == {"a", "b"}
CfgRanges == {<<0, 2>>, <<2, 1>>, <<4, 2>>}
CfgPositions == {<<"0", "9", "10", "31">>, <<"10", "0", "9", "31">>,
                 <<"0", "adap.", "adap.", "adap.">>}

CfgDevices(n, ty, nm, rg, pos) ==
    [i \in 1..n |-> [type |-> ty[i], name |-> nm[i], position |-> pos[i],
                     offset |-> rg[i][1], length |-> rg[i][2]]]

\* The order of the position strings under sorted(): "0" < "10" < "31" < "9"
\* < "adap.".
PosRank(p) == CASE p = "0" -> 0 [] p = "10" -> 1 [] p = "31" -> 2 [] p = "9" -> 3
                [] OTHER -> 4

\* int(position)
PosInt(p) == CASE p = "0" -> 0 [] p = "10" -> 10 [] p = "31" -> 31 [] OTHER -> 9

\* sorted(lst_devices, key=lambda x: x["position"]), which is stable
RECURSIVE Sorted(_)
Sorted(seq) ==
    IF seq = <<>> THEN <<>>
    ELSE LET m == CHOOSE i \in 1..Len(seq) :
                     /\ \A j \in 1..Len(seq) : PosRank(seq[i].position) <= PosRank(seq[j].position)
                     /\ \A j \in 1..(i - 1) : PosRank(seq[j].position) # PosRank(seq[i].position)
         IN <<seq[m]>> \o Sorted(SubSeq(seq, 1, m - 1) \o SubSeq(seq, m + 1, Len(seq)))

\* hasattr(self.device, name); self.device holds the pairs of a name and the
\* position of the device the name stands for.
hasattr(attrs, name) == \E a \in attrs : a[1] = name

\* setattr(self.device, name, dev): the name stands for dev, and DeviceList
\* knows dev by its position.
setattr(st, dev) ==
    [st EXCEPT !.attrs = {a \in @ : a[1] # dev.name} \cup {<<dev.name, dev.position>>},
               !.positions = @ \cup {dev.position}]

\* The position of a device: "adap." becomes -1, counted down while a device
\* has the position.
RECURSIVE Unique(_, _)
Unique(p, positions) == IF p \in positions THEN Unique(p - 1, positions) ELSE p

Position(device, positions) ==
    IF device.position = "adap." THEN Unique(-1, positions) ELSE PosInt(device.position)

\* The offset of the device object: its declared offset, or the length so far
\* if that is larger.
EffOffset(device, length) == IF device.offset < length THEN length ELSE device.offset

\* The length without the offset of the device.
NewLength_sum(length, dev_new) == length + dev_new.length

\* if self._length < dev_new._offset: self._length = dev_new._offset
\* self._length += dev_new._length
NewLength(length, dev_new) ==
    (IF length < dev_new.offset THEN dev_new.offset ELSE length) + dev_new.length

\* The body of "for device in sorted(...)".
OnDevice(device, st) ==
    IF device.type = "UNKNOWN"
    THEN [st EXCEPT !.warnings = @ + 1]
    ELSE LET dev_new == [name |-> device.name,
                         position |-> Position(device, st.positions),
                         offset |-> EffOffset(device, st.length),
                         length |-> device.length,
                         before |-> st.length]
             s1 == [st EXCEPT !.length = NewLength(@, dev_new),
                              !.placed = Append(@, dev_new),
                              !.err_names = IF hasattr(st.attrs, dev_new.name)
                                            THEN Append(@, dev_new.name) ELSE @]
         IN setattr(s1, dev_new)

RECURSIVE OnDevices(_, _)
OnDevices(devices, st) ==
    IF devices = <<>> THEN st
    ELSE OnDevices(Tail(devices), OnDevice(Head(devices), st))

\* for errdev in err_names: delattr(self.device, errdev), and the warning;
\* delattr of a name that is not there raises AttributeError.
RECURSIVE DelNames(_, _)
DelNames(names, st) ==
    IF names = <<>> THEN st
    ELSE IF ~hasattr(st.attrs, Head(names))
    THEN [st EXCEPT !.result = "AttributeError"]
    ELSE DelNames(Tail(names), [st EXCEPT !.attrs = {a \in @ : a[1] # Head(names)},
                                          !.warnings = @ + 1])

\* _configure, up to the names.
configure(devices) ==
    LET st == OnDevices(Sorted(devices),
                        [done |-> TRUE, length |-> 0, placed |-> <<>>, attrs |-> {},
                         positions |-> {}, err_names |-> <<>>, warnings |-> 0,
                         result |-> "None"])
    IN DelNames(st.err_names, st)

Configure ==
    /\ ~configured.done
    /\ configured' = configure(jconfigrsc)
    /\ UNCHANGED <<asked, jconfigrsc>>

\* RevPiModIO() before _configure: no device, no loop, no coordinator.
InitCfg ==
    /\ \E n \in 0..MaxDev :
       \E ty \in [1..n -> CfgTypes], nm \in [1..n -> CfgNames], rg \in [1..n -> CfgRanges] :
       \E pos \in CfgPositions :
           jconfigrsc = CfgDevices(n, ty, nm, rg, pos)
    /\ configured = NotConfigured
    /\ asked = {}
    /\ img = [k \in ImgIndex |-> 0]
    /\ ba_devdata = [d \in Devices |-> [i \in DevIndex(d) |-> 0]]
    /\ ba_datacp = ba_devdata
    /\ selfupdate = [d \in Devices |-> FALSE]
    /\ lst_refresh = <<>>
    /\ imgAlive = FALSE
    /\ monitoring = FALSE
    /\ ioerror = 0
    /\ imgwriter_ioerror = 0
    /\ maxioerrors = 0
    /\ looprunning = FALSE
    /\ exitEvt = FALSE
    /\ waitexit = FALSE
    /\ op = "init"
    /\ callarg = "None"
    /\ result = "None"
    /\ warned = FALSE
    /\ log = <<>>
    /\ failsSinceReset = 0
    /\ consec = 0
    /\ refresh = DefaultRefresh
    /\ newdata = FALSE
    /\ lck_refresh = "free"
    /\ freeze = FALSE
    /\ lst_fire = <<>>
    /\ dict_delay = <<>>
    /\ tpc = "idle"
    /\ fired = <<>>
    /\ dropped = <<>>
    /\ th_events = {}
    /\ NoThreads

NextCfg ==
    /\ Configure
    /\ UNCHANGED ioVars
    /\ UNCHANGED tickVars
    /\ UNCHANGED thrVars

SpecCfg == InitCfg /\ [][NextCfg]_vars

\* ------------------------------------------------------------ the claims

IsIOCall(name) == name \in {"readprocimg", "syncoutputs", "writeprocimg"}

\* The places of the events of one kind on one device in a log.
Pos(kind, dev, lg) == {i \in 1..Len(lg) : lg[i].ev = kind /\ lg[i].dev = dev}

\* C5: with maxioerrors = N > 0, a failing readprocimg, syncoutputs or
\* writeprocimg call that is not yet the N-th failure since the counter was
\* reset returns False with a warning, and the N-th raises the RuntimeError.
C5_FatalOnNth ==
    [][(IsIOCall(op') /\ failsSinceReset' = failsSinceReset + 1 /\ maxioerrors > 0)
        => /\ failsSinceReset' < maxioerrors => (result' = "False" /\ warned')
           /\ failsSinceReset' = maxioerrors => result' = "RuntimeError_maxio"]_vars

\* C5: the second of two failed reads in a row raised, with maxioerrors = 2.
C5_Witness ==
    /\ op = "readprocimg"
    /\ result = "RuntimeError_maxio"
    /\ maxioerrors = 2
    /\ failsSinceReset = 2
    /\ consec = 2

\* C6 as claimed: the fatal RuntimeError is raised only when maxioerrors
\* calls failed with no successful call in between.
C6_Consecutive ==
    (IsIOCall(op) /\ result = "RuntimeError_maxio") => consec >= maxioerrors

\* C6 as amended: the counter is the number of failed calls since the last
\* resetioerrors() (a successful call does not clear it), and a failing call
\* raises exactly when this number has reached maxioerrors > 0.
C6_CountsAll ==
    /\ ioerror = failsSinceReset
    /\ result = "RuntimeError_maxio" => (maxioerrors > 0 /\ failsSinceReset >= maxioerrors)
    /\ (IsIOCall(op) /\ result = "False") => (maxioerrors = 0 \/ failsSinceReset < maxioerrors)

\* C6: the RuntimeError was raised by failures that a successful call separates.
C6_Witness ==
    /\ result = "RuntimeError_maxio"
    /\ maxioerrors = 2
    /\ failsSinceReset = 2
    /\ consec = 1

\* C7 as claimed: exit(full=True), not monitoring, writes the outputs of
\* every refreshed device exactly once and then turns its _selfupdate off,
\* and leaves no device self-updating and the refresh list empty.
C7_WriteThenMark ==
    [][(op' = "exit_full" /\ ~monitoring)
        => /\ \A d \in Range(lst_refresh) :
                /\ Cardinality(Pos("write", d, log')) = 1
                /\ Cardinality(Pos("selfupdate_off", d, log')) = 1
                /\ \A i \in Pos("write", d, log'), j \in Pos("selfupdate_off", d, log') : i < j
           /\ result' = "None" =>
                (lst_refresh' = <<>> /\ \A d \in Devices : ~selfupdate'[d])]_vars

\* The devices exit(full=True) has released in this step, each with its
\* _selfupdate turned off first and exactly one output write right after.
Released(d) ==
    /\ ~selfupdate'[d]
    /\ d \notin Range(lst_refresh')
    /\ Cardinality(Pos("write", d, log')) = 1
    /\ Cardinality(Pos("selfupdate_off", d, log')) = 1
    /\ \A i \in Pos("write", d, log'), j \in Pos("selfupdate_off", d, log') : i = j + 1

\* C7 as amended: exit(full=True), not monitoring, takes the refreshed
\* devices last first, turns _selfupdate off and then writes the outputs
\* once; a failed write below maxioerrors is only counted, and when exit
\* returns no device is self-updating and the refresh list is empty; a
\* failed write that reaches maxioerrors raises out of exit and the devices
\* not yet taken stay self-updating in the refresh list.
C7_MarkThenWrite ==
    [][(op' = "exit_full" /\ ~monitoring)
        => /\ result' \in {"None", "RuntimeError_maxio"}
           /\ result' = "None" =>
                /\ lst_refresh' = <<>>
                /\ \A d \in Devices : ~selfupdate'[d]
                /\ \A d \in Range(lst_refresh) : Released(d)
                /\ looprunning' = FALSE
           /\ result' = "RuntimeError_maxio" =>
                /\ log' # <<>>
                /\ log'[Len(log')].ev = "write" /\ ~log'[Len(log')].ok
                /\ \A d \in Range(lst_refresh) :
                      \/ Released(d)
                      \/ /\ d \in Range(lst_refresh') /\ selfupdate'[d]
                         /\ Pos("write", d, log') = {} /\ Pos("selfupdate_off", d, log') = {}]_vars

\* C7: exit(full=True) returned after releasing two devices, one of whose
\* final writes failed.
C7_Witness ==
    /\ op = "exit_full"
    /\ ~monitoring
    /\ result = "None"
    /\ Len(log) = 4
    /\ \E i \in 1..Len(log) : log[i].ev = "write" /\ ~log[i].ok
    /\ \A d \in Devices : ~selfupdate[d]

\* The call of this step did not touch device d: its buffer, its bytes of
\* the file, and no event on it.
Untouched(d) ==
    /\ ba_devdata'[d] = ba_devdata[d]
    /\ \A k \in slc_devoff(d) : img'[k] = img[k]
    /\ \A i \in 1..Len(log') : log'[i].dev # d

InLoop(t) == pc[t] \in {"cl_top", "cl_acq", "cl_func", "cl_rel", "ml_top", "ml_diff", "ml_fire"}

\* C1: the checks of cycleloop and mainloop let no thread pass while another
\* thread is in a loop, so that at most one thread is in a loop.
C1_SecondStartRaises ==
    [][\A t \in Threads :
           (pc[t] \in {"idle", "ml_entry"} /\ pc'[t] \in {"cl_start", "ml_start"}) =>
               ~\E u \in Threads \ {t} : InLoop(u)
      ]_vars

\* --- C2 ---------------------------------------------------------------

Count(seq, tup) == Cardinality({i \in 1..Len(seq) : seq[i].tup = tup})

CountFunc(seq, regfunc) == Cardinality({i \in 1..Len(seq) : seq[i].tup[1] = regfunc})

NoDelay(e) == e.tup[1][4] = 0

\* C2: in one tick, a delay-0 registration of a bit whose baseline is 0 and
\* whose live value is 1 is queued exactly once with the value true when it is
\* RISING or BOTH and not at all when it is FALLING, and no registration of a
\* bit that did not change is queued; the countdown of the delayed entries
\* leaves these entries of the queue alone, and the queue is then emptied by
\* calling each of its entries exactly once.
C2_EdgeFiring ==
    [][/\ (tpc = "wait" /\ tpc' = "delay") =>
             \A i \in 1..Len(dict_events("d1")) :
                 LET io == dict_events("d1")[i][1]
                     regs == dict_events("d1")[i][2]
                     cp == BitOf(ba_datacp["d1"][io_slc_address(io)], io_bitaddress(io))
                     live == BitOf(ba_devdata["d1"][io_slc_address(io)], io_bitaddress(io))
                 IN  io_bitaddress(io) >= 0 =>
                         \A k \in 1..Len(regs) :
                             regs[k][4] = 0 =>
                                 /\ (cp = 0 /\ live = 1 /\ regs[k][2] \in {"RISING", "BOTH"}) =>
                                        /\ Count(lst_fire', <<regs[k], io, 1>>) = 1
                                        /\ CountFunc(lst_fire', regs[k]) = 1
                                 /\ (cp = 0 /\ live = 1 /\ regs[k][2] = "FALLING") =>
                                        CountFunc(lst_fire', regs[k]) = 0
                                 /\ cp = live => CountFunc(lst_fire', regs[k]) = 0
       /\ (tpc = "delay" /\ tpc' = "fire") =>
             SelectSeq(lst_fire', NoDelay) = SelectSeq(lst_fire, NoDelay)
       /\ (tpc = "fire" /\ tpc' = "wait") =>
             /\ Len(fired') = Len(lst_fire)
             /\ \A i \in 1..Len(lst_fire) :
                    Count(fired', lst_fire[i].tup) = Count(lst_fire, lst_fire[i].tup)
      ]_vars

\* A tick has called f1 and f3 for the rising bit I_1, and not f2.
C2_Witness ==
    /\ tpc = "wait"
    /\ Count(fired, <<f1, "I_1", 1>>) = 1
    /\ Count(fired, <<f3, "I_1", 1>>) = 1
    /\ CountFunc(fired, f2) = 0

\* --- C3 ---------------------------------------------------------------

\* C3: a registration with a delay and without overwrite is called exactly
\* ceil(delay / cycle time) ticks after the tick that found its change.
C3_FiresAfterN ==
    \A i \in 1..Len(fired) :
        (fired[i].tup[1][4] > 0 /\ ~fired[i].tup[1][5]) =>
            fired[i].age = ceil(fired[i].tup[1][4], refresh)

\* --- C4 ---------------------------------------------------------------

\* C4: the tick that finds the value of the IO different from the value of a
\* pending entry with overwrite drops the entry, into neither the table nor
\* the queue; the queue gets an entry with overwrite only from the countdown
\* of a tick that finds the IO at the value of the entry, and only the queue
\* is called.
C4_CancelOnRevert ==
    [][/\ (tpc = "delay" /\ tpc' = "fire") =>
             /\ \A i \in 1..Len(dict_delay) :
                    (dict_delay[i].key[1][5]
                        /\ value(dict_delay[i].key[2], ba_devdata) # dict_delay[i].key[3]) =>
                        /\ ~HasKey(dict_delay', dict_delay[i].key)
                        /\ Count(lst_fire', dict_delay[i].key) = 0
             /\ \A j \in 1..Len(lst_fire') :
                    lst_fire'[j].tup[1][5] =>
                        value(lst_fire'[j].tup[2], ba_devdata) = lst_fire'[j].tup[3]
       /\ (tpc = "wait" /\ tpc' = "delay") =>
             \A j \in 1..Len(lst_fire') : lst_fire'[j].tup[1][4] = 0
       /\ (tpc = "fire" /\ tpc' = "wait") =>
             \A j \in 1..Len(fired') : Count(lst_fire, fired'[j].tup) > 0
      ]_vars

\* A tick has dropped the pending entry of f5 because I_2 went back to 0.
C4_Witness ==
    /\ tpc = "fire"
    /\ \E i \in 1..Len(dropped) : dropped[i].key = <<f5, "I_2", 1>>
    /\ value("I_2", ba_devdata) = 0
    /\ ~HasKey(dict_delay, <<f5, "I_2", 1>>)
    /\ Count(lst_fire, <<f5, "I_2", 1>>) = 0

\* --- C9 ---------------------------------------------------------------

\* C9: a step of a thread that changes the live buffer or the baseline of a
\* device is a step of the thread that holds the lock of the device, which it
\* took in a step before and gives back in a step after.
C9_AssignUnderLock ==
    [][\A t \in Threads :
           pc'[t] # pc[t] =>
               \A d \in Devices :
                   (ba_devdata'[d] # ba_devdata[d] \/ ba_datacp'[d] # ba_datacp[d]) =>
                       (filelock[d] = t /\ filelock'[d] = t)
      ]_vars

\* t1 has read the inputs of d1 into its live buffer under the lock that m1
\* waits for, for the copy of the baseline of d1.
C9_Witness ==
    /\ pc["t1"] = "io_rel"
    /\ lcl["t1"].kind = "readprocimg"
    /\ Head(lcl["t1"].todo) = "d1"
    /\ filelock["d1"] = "t1"
    /\ ba_devdata["d1"][1] = 1
    /\ pc["m1"] = "cp_acq"
    /\ Head(lcl["m1"].todo) = "d1"

\* --- C10 --------------------------------------------------------------

IsPrefix(a, b) == Len(a) <= Len(b) /\ \A i \in 1..Len(a) : a[i] = b[i]

\* C10: while the function and _docycle() run, and until the release, the
\* thread of cycleloop holds lck_refresh and the coordinator is not in its
\* cycle; a cycle of the loop is clear, acquire, func, _docycle, release in
\* this order.
C10_FuncUnderLock ==
    \A t \in Threads :
        /\ pc[t] \in {"cl_func", "cl_rel"} =>
               (lck_refresh = t /\ wpc # "locked")
        /\ IsPrefix(cyc[t], <<"clear", "acquire", "func", "docycle", "release">>)

\* The function runs in t1 while the coordinator waits for the lock with the
\* cycle that is due.
C10_Witness ==
    /\ pc["t1"] = "cl_func"
    /\ lck_refresh = "t1"
    /\ wpc = "sleep"
    /\ ~wstop
    /\ ~newdata

\* --- C17 --------------------------------------------------------------

\* The bytes of the file that hold the outputs of device d.
OutBytes(d) == {AbsIndex(d, i) : i \in slc_out(d)}

\* The devices the call of this step worked on.
Covered == {d \in Devices : callarg' \in {"None", d} /\ ~selfupdate[d]}

\* C17: a writeprocimg that returns True has written the output bytes of the
\* live buffer of each device it works on to their place in the file, and no
\* writeprocimg changes another byte of the file or a buffer; a syncoutputs
\* changes only the outputs of the live buffers, to the values of the file,
\* so that after a writeprocimg it leaves the buffer as it is; a readprocimg,
\* not monitoring, leaves the outputs of the live buffers as they are.
C17_WriteSyncRoundTrip ==
    [][/\ op' = "writeprocimg" =>
             /\ ba_devdata' = ba_devdata
             /\ \A k \in ImgIndex \ UNION {OutBytes(d) : d \in Covered} : img'[k] = img[k]
             /\ result' = "True" =>
                    \A d \in Covered : \A i \in slc_out(d) :
                        img'[AbsIndex(d, i)] = ba_devdata[d][i]
       /\ op' = "syncoutputs" =>
             /\ img' = img
             /\ \A d \in Devices : \A i \in DevIndex(d) \ slc_out(d) :
                    ba_devdata'[d][i] = ba_devdata[d][i]
             /\ result' = "True" =>
                    \A d \in Covered : \A i \in slc_out(d) :
                        ba_devdata'[d][i] = img[AbsIndex(d, i)]
             /\ (op = "writeprocimg" /\ result = "True" /\ callarg = callarg'
                    /\ result' = "True") =>
                    ba_devdata' = ba_devdata
       /\ (op' = "readprocimg" /\ ~monitoring) =>
             \A d \in Devices : \A i \in slc_out(d) :
                 ba_devdata'[d][i] = ba_devdata[d][i]
      ]_vars

\* writeprocimg(d1) has written the output 1 of d1 to its byte of the file;
\* the input byte of d1 and the output byte of d2 in the file differ from the
\* buffers as before.
C17_Witness ==
    /\ op = "writeprocimg"
    /\ callarg = "d1"
    /\ result = "True"
    /\ ~monitoring
    /\ ba_devdata["d1"][2] = 1
    /\ img[AbsIndex("d1", 2)] = 1
    /\ img[AbsIndex("d1", 1)] # ba_devdata["d1"][1]
    /\ img[AbsIndex("d2", 1)] # ba_devdata["d2"][1]

\* --- C18 --------------------------------------------------------------

\* C18: when monitoring, no call changes the file; writeprocimg raises the
\* RuntimeError with no write event, and exit(full=True) returns with every
\* device taken from the refresh list, _selfupdate off, and no write event.
C18_MonitoringNeverWrites ==
    [][monitoring =>
          /\ img' = img
          /\ op' = "writeprocimg" => (result' = "RuntimeError_monitoring" /\ log' = <<>>)
          /\ op' = "exit_full" =>
                /\ result' = "None"
                /\ lst_refresh' = <<>>
                /\ \A d \in Devices : ~selfupdate'[d]
                /\ Len(log') = Len(lst_refresh)
                /\ \A i \in 1..Len(log') : log'[i].ev = "selfupdate_off"
      ]_vars

\* Monitoring, exit(full=True) has released the two refreshed devices.
C18_Witness ==
    /\ monitoring
    /\ op = "exit_full"
    /\ result = "None"
    /\ Len(log) = 2
    /\ \A i \in 1..Len(log) : log[i].ev = "selfupdate_off"
    /\ lst_refresh = <<>>

\* --- C20 --------------------------------------------------------------

\* C20: the comparison of a tick leaves an entry of the delayed table whose
\* registration has no overwrite as it is, key and countdown, whether the IO
\* is a bit or not.
C20_PendingKept ==
    [][(tpc = "wait" /\ tpc' = "delay") =>
           \A i \in 1..Len(dict_delay) :
               ~dict_delay[i].key[1][5] =>
                   \E j \in 1..Len(dict_delay') : dict_delay'[j] = dict_delay[i]
      ]_vars

\* --- C13 --------------------------------------------------------------

\* The entries of a queue whose registration has as_thread set.
AsThread(seq) == {seq[i].tup : i \in {j \in 1..Len(seq) : seq[j].tup[1][3]}}

NonOverlapping(devices) ==
    \A i, j \in 1..Len(devices) :
        (i # j /\ devices[i].type # "UNKNOWN" /\ devices[j].type # "UNKNOWN") =>
            \/ devices[i].offset + devices[i].length <= devices[j].offset
            \/ devices[j].offset + devices[j].length <= devices[i].offset

\* C15: after _configure on devices whose declared ranges do not overlap, in
\* the order of placement the offset of each device is at least the length
\* accumulated before it, the offsets do not decrease, and the length of the
\* process image is the offset of the last device plus its length.
C15_OffsetsMonotone ==
    (configured.done /\ NonOverlapping(jconfigrsc)) =>
        LET P == configured.placed IN
        /\ \A i \in 1..Len(P) : P[i].offset >= P[i].before
        /\ \A i, j \in 1..Len(P) : i < j => P[i].offset <= P[j].offset
        /\ Len(P) > 0 => configured.length = P[Len(P)].offset + P[Len(P)].length
        /\ Len(P) = 0 => configured.length = 0

\* Three devices are placed, the last behind a gap and one at the length
\* accumulated before it.
C15_Witness ==
    /\ configured.done
    /\ NonOverlapping(jconfigrsc)
    /\ Len(configured.placed) = 3
    /\ configured.placed[3].offset > configured.placed[3].before
    /\ configured.placed[2].offset = configured.placed[2].before
    /\ configured.length = 6

\* --- C16 --------------------------------------------------------------

\* C16: when devices placed by _configure share a name, _configure ends
\* without an error and with a warning, the name is no attribute of
\* self.device, and each of the devices is known by its position.
C16_DuplicateNames ==
    configured.done =>
        \A i, j \in 1..Len(configured.placed) :
            (i # j /\ configured.placed[i].name = configured.placed[j].name) =>
                /\ configured.result = "None"
                /\ configured.warnings > 0
                /\ ~hasattr(configured.attrs, configured.placed[i].name)
                /\ configured.placed[i].position \in configured.positions
                /\ configured.placed[i].position # configured.placed[j].position


C12_LoopsLeave ==
    (asked # {}) ~> (asked = {})


\* C14: in SpecLoop no call of cycleloop or mainloop raises "autorefresh
\* thread not running" when exit() was called while the thread was in that
\* call.
C14_NoRaiseAfterExit ==
    [][\A t \in Threads :
           (pc[t] = "lp_alive" /\ pc'[t] = Home(t) /\ result' = "RuntimeError_notrunning")
               => t \notin asked]_vars

\* C19: in SpecLoop the cycle time does not change while a thread is inside
\* the body of the loop of cycleloop or mainloop, and setting it then raises.
C19_NoChangeInLoop ==
    [][(\E t \in Threads : pc[t] \in BodyPcs) =>
           /\ refresh' = refresh
           /\ (/\ UNCHANGED <<pc, wpc>>
               /\ op' = "cycletime"
               /\ <<op, callarg, result>>' # <<op, callarg, result>>)
                  => result' = "RuntimeError_looprunning"]_vars

\* --- C21 --------------------------------------------------------------

\* C21: without freeze, mainloop has released lck_refresh when the comparison
\* of a tick is over: the lock is free while the delayed entries are looked at
\* and while the callbacks are called, and the end of the tick, which with
\* freeze releases the lock, leaves it as it is, so that the lock taken in a
\* tick is released once.
C21_ReleasedAfterDiff ==
    [][~freeze =>
          /\ (tpc = "wait" /\ tpc' = "delay") => (lck_refresh = "free" /\ lck_refresh' = "free")
          /\ tpc \in {"delay", "fire"} => lck_refresh = "free"
          /\ (tpc = "delay" /\ tpc' = "fire") => lck_refresh' = "free"
          /\ (tpc = "fire" /\ tpc' = "wait") =>
                /\ lck_refresh' = lck_refresh
                /\ Len(fired') = Len(lst_fire)
      ]_vars

\* Without freeze, a tick has queued callbacks and a delayed entry, and the
\* lock is free before the first callback is called.
C21_Witness ==
    /\ ~freeze
    /\ tpc = "fire"
    /\ Len(lst_fire) > 0
    /\ Len(dict_delay) > 0
    /\ lck_refresh = "free"

\* --- C22 --------------------------------------------------------------

\* The registrations of the IO O_1, which has no bit index.
RegsOf(io) == LET E == dict_events(io_dev(io))
              IN  Range(E[CHOOSE i \in 1..Len(E) : E[i][1] = io][2])

\* C22: in the comparison of a tick, when the byte of O_1 differs between
\* baseline and buffer, every registration on O_1, RISING or FALLING, is
\* triggered with the new value: queued for this tick without a delay, put
\* into the delayed table with its countdown otherwise; when the byte is the
\* same, nothing is queued for O_1 and no delayed entry of O_1 is added or
\* changed.
C22_AnyChangeTriggers ==
    [][(tpc = "wait" /\ tpc' = "delay") =>
           LET v == ba_devdata["d1"][io_slc_address("O_1")]
               changed == ba_datacp["d1"][io_slc_address("O_1")] # v
               OfO1(seq) == SelectSeq(seq, LAMBDA e : e.key[2] = "O_1")
           IN  \A r \in RegsOf("O_1") :
                   /\ (changed /\ r[4] = 0) => Count(lst_fire', <<r, "O_1", v>>) = 1
                   /\ (changed /\ r[4] # 0) =>
                          \E j \in 1..Len(dict_delay') :
                              /\ dict_delay'[j].key = <<r, "O_1", v>>
                              /\ dict_delay'[j].cnt = ceil(r[4], refresh)
                   /\ ~changed =>
                          /\ CountFunc(lst_fire', r) = 0
                          /\ OfO1(dict_delay') = OfO1(dict_delay)
      ]_vars

\* O_1 fell from 1 to 0: the RISING registration f6 was called with 0 and the
\* FALLING registration f7 waits in the delayed table; and in another tick in
\* which O_1 rose, f7 was put into the table with 1.
C22_Witness ==
    /\ tpc = "wait"
    /\ Count(fired, <<f6, "O_1", 0>>) = 1
    /\ HasKey(dict_delay, <<f7, "O_1", 0>>)
    /\ HasKey(dict_delay, <<f7, "O_1", 1>>)

\* --- C23 --------------------------------------------------------------

\* The events of exit(full=True) in the log of the handler, from the third to
\* the one before k.
ExitPart(k) == \A i \in 3..(k - 1) : log[i].ev \in {"selfupdate_off", "write"}

\* What follows exit(full=True) when a cleanup function is registered: the
\* read of every device, the function, the write of every device.
FinalPart == Events("read", DeviceList, {})
                 \o << [ev |-> "cleanupfunc", dev |-> "None", ok |-> TRUE] >>
                 \o Events("write", DeviceList, {})

\* C23: when the handler has run and no access to the file failed in it, it
\* began with the default dispositions of SIGINT and SIGTERM, went on with
\* exit(full=True), after which no device is self-updating, and did nothing
\* more without a cleanup function; with one it ended, without an error, with
\* the read of every device, the function and the write of every device.
C23_HandlerOrder ==
    (op = "evt_exit" /\ ~warned /\ result # "RuntimeError_maxio") =>
        /\ Len(log) >= 2
        /\ SubSeq(log, 1, 2) = SigDfl
        /\ \A d \in Devices : ~selfupdate[d]
        /\ lst_refresh = <<>>
        /\ callarg = "None" => ExitPart(Len(log) + 1)
        /\ callarg = "cleanupfunc" =>
               /\ result = "None"
               /\ Len(log) >= 2 + Len(FinalPart)
               /\ SubSeq(log, Len(log) - Len(FinalPart) + 1, Len(log)) = FinalPart
               /\ ExitPart(Len(log) - Len(FinalPart) + 1)

\* --- C27 --------------------------------------------------------------

\* The step is a call of readprocimg or syncoutputs whose read of the file
\* failed, or a call of writeprocimg in which a write failed.
FailedRead == op' \in {"readprocimg", "syncoutputs"} /\ failsSinceReset' = failsSinceReset + 1

FailedWrite == op' = "writeprocimg" /\ failsSinceReset' = failsSinceReset + 1

\* What a failed call changes: self._ioerror grows by one; a failed read
\* leaves every buffer as it is; a call with failed writes has tried the write
\* of every device it covers that is not self-updating, once.
FrameOfFailure ==
    /\ FailedRead => (ioerror' = ioerror + 1 /\ ba_devdata' = ba_devdata /\ log' = <<>>)
    /\ FailedWrite =>
           /\ ioerror' = ioerror + 1
           /\ ba_devdata' = ba_devdata
           /\ \A d \in Devices :
                  Cardinality(Pos("write", d, log')) =
                      IF callarg' \in {"None", d} /\ ~selfupdate[d] THEN 1 ELSE 0

\* C27 as claimed: a failed read returns False, and the frame of a failed call
\* is as above.
C27_FailedReturnsFalse ==
    [][/\ FrameOfFailure
       /\ FailedRead => result' = "False"]_vars

\* C27 as amended: a failed read returns False unless the counter reaches
\* maxioerrors > 0 with it, in which case the call raises the RuntimeError;
\* the frame of a failed call is as above in both cases.
C27_FailedFrame ==
    [][/\ FrameOfFailure
       /\ (FailedRead \/ FailedWrite) =>
              result' = IF maxioerrors # 0 /\ ioerror' >= maxioerrors
                        THEN "RuntimeError_maxio" ELSE "False"]_vars

\* writeprocimg() for all devices: both writes failed and were tried, the
\* call returned False and the counter, 1 before, is 2.
C27_Witness ==
    /\ op = "writeprocimg"
    /\ callarg = "None"
    /\ result = "False"
    /\ Len(log) = 2
    /\ \A i \in 1..Len(log) : log[i].ev = "write" /\ ~log[i].ok
    /\ ioerror = 2
    /\ failsSinceReset = 2

\* --- C28 --------------------------------------------------------------

\* The thread starts the run of its loop in this step (cycleloop 366-368,
\* mainloop 519-526).
Begins(t) == pc[t] = "lp_start" /\ pc'[t] = "lp_top"

\* C28: a loop begins a fresh run: when the run of cycleloop or mainloop
\* starts and no exit() was called since the loop was called, the exit flag is
\* clear, whatever an earlier exit() left, so that the first test of the while
\* loop does not end the loop.
C28_FreshRun ==
    [][\A t \in Threads : (Begins(t) /\ t \notin asked) => ~exitEvt']_vars

\* The same for mainloop alone.
C28_FreshMainloop ==
    [][\A t \in Threads :
           (Begins(t) /\ t \notin asked /\ lcl[t].kind = "mainloop") => ~exitEvt']_vars

\* --- C25 --------------------------------------------------------------

\* The thread leaves the loop it had started: by return, by the RuntimeError
\* of the wait or by an exception of the function or of a callback.
LoopLeft(t) == pc[t] \in BodyPcs \cup {"lp_top", "lp_end"} /\ pc'[t] = Home(t)

\* C25: when a thread leaves cycleloop or mainloop, however it leaves, it does
\* not hold lck_refresh and _looprunning is False.
C25_LeftClean ==
    [][\A t \in Threads : LoopLeft(t) => (~looprunning' /\ lck_refresh' # t)]_vars

\* The normal return alone: _looprunning is False after it, and the step does
\* not touch the lock, which the release of the last cycle has left free.
C25_ReturnClean ==
    [][\A t \in Threads :
           (LoopLeft(t) /\ pc[t] = "lp_end") =>
               (~looprunning' /\ lck_refresh' = lck_refresh)]_vars

\* --- C26 --------------------------------------------------------------

\* The step is the comparison of a tick (540-607).
DiffPass == tpc = "wait" /\ tpc' = "delay"

\* C26: when the comparison of a tick is over, the baseline of every refreshed
\* device equals its buffer, also that of a device without a registration,
\* so that a registration added to it later is compared with the tick before.
C26_BaselineIsLive ==
    [][DiffPass => \A d \in Range(lst_refresh) : ba_datacp'[d] = ba_devdata'[d]]_vars

\* The same for the devices that have a registration when the tick begins.
C26_BaselineOfRegistered ==
    [][DiffPass => \A d \in Range(lst_refresh) :
                       Len(dict_events(d)) > 0 => ba_datacp'[d] = ba_devdata'[d]]_vars

\* --- C24 --------------------------------------------------------------

\* The cyclic refresh is active: devices are in autorefresh and the
\* coordinator runs.
RefreshActive == Len(lst_refresh) > 0 /\ imgAlive

\* The step is a read of the property ioerrors, or a call of resetioerrors()
\* and not a step of a loop or of the coordinator after one.
ReadsIoerrors ==
    /\ op' = "ioerrors"
    /\ UNCHANGED <<ioerror, imgwriter_ioerror, looprunning, lst_refresh, imgAlive>>

Resets ==
    /\ op' = "resetioerrors"
    /\ looprunning' = looprunning
    /\ imgwriter_ioerror' # imgwriter_ioerror + 1

\* C24: the property ioerrors gives the counter of the coordinator whenever
\* the cyclic refresh is active and the counter of the program otherwise, and
\* after resetioerrors() both counters are 0.
C24_CounterByRefresh ==
    [][/\ ReadsIoerrors =>
              result' = ToString(IF RefreshActive THEN imgwriter_ioerror ELSE ioerror)
       /\ Resets => (ioerror' = 0 /\ imgwriter_ioerror' = 0)]_vars

\* What the property gives: the counter of the coordinator while a loop is
\* running and the counter of the program otherwise; the counters are not
\* added, and after resetioerrors() both are 0.
C24_CounterByLoop ==
    [][/\ ReadsIoerrors =>
              result' = ToString(IF looprunning THEN imgwriter_ioerror ELSE ioerror)
       /\ Resets => (ioerror' = 0 /\ imgwriter_ioerror' = 0)]_vars
====
